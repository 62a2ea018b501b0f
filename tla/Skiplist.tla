------------------------------ MODULE Skiplist ------------------------------
(***************************************************************************)
(* The skiplist of t_zset.c with its pointers: every node has a forward    *)
(* pointer and a span for each of its levels and a backward pointer at     *)
(* the lowest.  Spans are what ZRANK and ZRANGE are computed from.         *)
(*                                                                         *)
(* Elements are 1..SkipEle, in the order sdscmp gives them, and name their *)
(* nodes (a sorted set holds an element once); 0 is the header, -1 is      *)
(* NULL.  The height of a new node is any number zslRandomLevel can return.*)
(***************************************************************************)
EXTENDS Integers, Sequences, FiniteSets, FiniteSetsExt, SequencesExt

CONSTANTS SkipEle,      \* number of elements
          SkipScore,    \* the scores used
          SkipMaxLevel  \* ZSKIPLIST_MAXLEVEL

VARIABLES sl,           \* the zskiplist
          zref          \* ghost: the set of <<score, element>> it should hold

skipVars == <<sl, zref>>

Header == 0
Null == -1
Levels == 1..SkipMaxLevel
SkipNode == 0..SkipEle

NoNode == [score |-> 0, height |-> 0, back |-> Null,
           fwd |-> [i \in Levels |-> Null], span |-> [i \in Levels |-> 0]]

\* zslCreate.
EmptySkiplist ==
  [level |-> 1, length |-> 0, tail |-> Null, node |-> [n \in SkipNode |-> NoNode]]

-----------------------------------------------------------------------------
(* Walking.                                                                *)

\* From level zsl->level down, go forward while Pass(next node, its rank);
\* the node and the rank reached at each level.
Descend(z, Pass(_, _)) ==
  LET Go[i \in Levels, x \in SkipNode, r \in 0..(2 * SkipEle)] ==
        LET f == z.node[x].fwd[i] IN
        IF f # Null /\ Pass(f, r + z.node[x].span[i])
        THEN Go[i, f, r + z.node[x].span[i]]
        ELSE [at |-> x, rank |-> r]
      At[i \in 1..(SkipMaxLevel + 1)] ==
        IF i > z.level THEN [at |-> Header, rank |-> 0]
        ELSE Go[i, At[i + 1].at, At[i + 1].rank]
  IN  At

\* The nodes from x on along the lowest level.
NodesFrom(z, x) ==
  LET S[y \in SkipNode \cup {Null}, n \in 0..SkipEle] ==
        IF y = Null \/ n = 0 THEN <<>> ELSE <<y>> \o S[z.node[y].fwd[1], n - 1]
  IN  S[x, SkipEle]

\* The longest prefix of s all of whose members satisfy Keep.
TakeWhile(s, Keep(_)) ==
  SubSeq(s, 1, Max({n \in 0..Len(s) : \A i \in 1..n : Keep(s[i])}))

\* Node n comes before (score, ele).
Precedes(z, n, score, ele) ==
  z.node[n].score < score \/ (z.node[n].score = score /\ n < ele)

-----------------------------------------------------------------------------
(* Updates.                                                                *)

\* zslInsert.
Insert(z, score, ele, height) ==
  LET upd == Descend(z, LAMBDA f, r : Precedes(z, f, score, ele))
      top == Max({z.level, height})
      r0  == upd[1].rank
      \* levels the list did not have yet start at the header
      z1  == [z EXCEPT !.node[Header].span =
                [i \in Levels |-> IF i \in (z.level + 1)..height THEN z.length ELSE @[i]]]
      \* the node before the new one at each level
      Link(n, rec) == [rec EXCEPT
        !.fwd  = [i \in Levels |-> IF i <= height /\ upd[i].at = n THEN ele ELSE rec.fwd[i]],
        !.span = [i \in Levels |-> IF upd[i].at # n \/ i > top THEN rec.span[i]
                                   ELSE IF i <= height THEN r0 - upd[i].rank + 1
                                   ELSE rec.span[i] + 1]]
      new == [score |-> score, height |-> height,
              back |-> IF upd[1].at = Header THEN Null ELSE upd[1].at,
              fwd |-> [i \in Levels |-> IF i <= height THEN z1.node[upd[i].at].fwd[i] ELSE Null],
              span |-> [i \in Levels |-> IF i > height THEN 0
                          ELSE z1.node[upd[i].at].span[i] - (r0 - upd[i].rank)]]
      nx  == new.fwd[1]
  IN  [level |-> top, length |-> z.length + 1,
       tail |-> IF nx = Null THEN ele ELSE z.tail,
       node |-> [n \in SkipNode |->
                   IF n = ele THEN new
                   ELSE [Link(n, z1.node[n]) EXCEPT !.back = IF n = nx THEN ele ELSE @]]]

\* zslDeleteNode: x is unlinked at its levels, spans shrink above them, and
\* levels that became empty are dropped.
DeleteNode(z, x, upd) ==
  LET Unlink(n, rec) == [rec EXCEPT
        !.fwd  = [i \in Levels |-> IF i <= z.level /\ upd[i].at = n /\ rec.fwd[i] = x
                                   THEN z.node[x].fwd[i] ELSE rec.fwd[i]],
        !.span = [i \in Levels |-> IF i > z.level \/ upd[i].at # n THEN rec.span[i]
                                   ELSE IF rec.fwd[i] = x THEN rec.span[i] + z.node[x].span[i] - 1
                                   ELSE rec.span[i] - 1]]
      nx == z.node[x].fwd[1]
      node == [n \in SkipNode |->
                 IF n = x THEN NoNode
                 ELSE [Unlink(n, z.node[n]) EXCEPT !.back = IF n = nx THEN z.node[x].back ELSE @]]
  IN  [level |-> Max({1} \cup {i \in 1..z.level : node[Header].fwd[i] # Null}),
       length |-> z.length - 1,
       tail |-> IF nx = Null THEN z.node[x].back ELSE z.tail,
       node |-> node]

\* Delete the nodes after upd while Keep holds.
DeleteWhile(z, upd, Keep(_)) ==
  FoldLeft(LAMBDA acc, x : DeleteNode(acc, x, upd), z,
           TakeWhile(NodesFrom(z, z.node[upd[1].at].fwd[1]), Keep))

\* zslDelete.
Delete(z, score, ele) ==
  LET upd == Descend(z, LAMBDA f, r : Precedes(z, f, score, ele))
      x   == z.node[upd[1].at].fwd[1]
  IN  IF x = ele /\ z.node[x].score = score THEN DeleteNode(z, x, upd) ELSE z

ValueGteMin(v, r) == IF r.minex THEN v > r.min ELSE v >= r.min

ValueLteMax(v, r) == IF r.maxex THEN v < r.max ELSE v <= r.max

DeleteRangeByScore(z, r) ==
  DeleteWhile(z, Descend(z, LAMBDA f, k : ~ValueGteMin(z.node[f].score, r)),
              LAMBDA x : ValueLteMax(z.node[x].score, r))

DeleteRangeByLex(z, r) ==
  DeleteWhile(z, Descend(z, LAMBDA f, k : ~ValueGteMin(f, r)),
              LAMBDA x : ValueLteMax(x, r))

\* Ranks start at 1 here.
DeleteRangeByRank(z, start, end) ==
  LET upd == Descend(z, LAMBDA f, k : k < start)
      run == NodesFrom(z, z.node[upd[1].at].fwd[1])
      n   == Min({Len(run), Max({0, end - upd[1].rank})})
  IN  FoldLeft(LAMBDA acc, x : DeleteNode(acc, x, upd), z, SubSeq(run, 1, n))

-----------------------------------------------------------------------------
(* Queries.                                                                *)

\* zslIsInRange and zslIsInLexRange, v[n] the score or the element of node n.
ZslIsInRange(z, r, v) ==
  /\ ~(r.min > r.max \/ (r.min = r.max /\ (r.minex \/ r.maxex)))
  /\ z.tail # Null /\ ValueGteMin(v[z.tail], r)
  /\ z.node[Header].fwd[1] # Null /\ ValueLteMax(v[z.node[Header].fwd[1]], r)

ZslFirstInRange(z, r, v) ==
  LET x == z.node[Descend(z, LAMBDA f, k : ~ValueGteMin(v[f], r))[1].at].fwd[1]
  IN  IF ZslIsInRange(z, r, v) /\ ValueLteMax(v[x], r) THEN x ELSE Null

ZslLastInRange(z, r, v) ==
  LET x == Descend(z, LAMBDA f, k : ValueLteMax(v[f], r))[1].at
  IN  IF ZslIsInRange(z, r, v) /\ ValueGteMin(v[x], r) THEN x ELSE Null

\* zslGetRank: the walk of the level at which the element is met.
GetRank(z, score, ele) ==
  LET up == Descend(z, LAMBDA f, k : Precedes(z, f, score, ele + 1))
      at == {i \in 1..z.level : up[i].at = ele}
  IN  IF at = {} THEN 0 ELSE up[Max(at)].rank

\* zslGetElementByRank.
GetElementByRank(z, rank) ==
  LET up == Descend(z, LAMBDA f, k : k <= rank)
      at == {i \in 1..z.level : up[i].rank = rank}
  IN  IF at = {} THEN Null ELSE up[Max(at)].at

-----------------------------------------------------------------------------
(* Actions: the calls zsetAdd, zsetDel and ZREMRANGEBY* make.              *)

SkipRange == [min : SkipScore, max : SkipScore, minex : BOOLEAN, maxex : BOOLEAN]
LexRange == [min : 1..SkipEle, max : 1..SkipEle, minex : BOOLEAN, maxex : BOOLEAN]

SkipInit == sl = EmptySkiplist /\ zref = {}

SkipInsert(score, ele, height) ==
  /\ \A p \in zref : p[2] # ele
  /\ sl' = Insert(sl, score, ele, height)
  /\ zref' = zref \cup {<<score, ele>>}

SkipDelete(score, ele) ==
  /\ sl' = Delete(sl, score, ele)
  /\ zref' = zref \ {<<score, ele>>}

SkipDeleteRangeByScore(r) ==
  /\ sl' = DeleteRangeByScore(sl, r)
  /\ zref' = {p \in zref : ~(ValueGteMin(p[1], r) /\ ValueLteMax(p[1], r))}

\* Lexicographic ranges are meant for elements of one score.
SkipDeleteRangeByLex(r) ==
  /\ Cardinality({p[1] : p \in zref}) = 1
  /\ sl' = DeleteRangeByLex(sl, r)
  /\ zref' = {p \in zref : ~(ValueGteMin(p[2], r) /\ ValueLteMax(p[2], r))}

\* The reference order of the sorted set.
Sorted(ref) ==
  SetToSortSeq(ref, LAMBDA a, b : a[1] < b[1] \/ (a[1] = b[1] /\ a[2] < b[2]))

SkipDeleteRangeByRank(start, end) ==
  /\ start <= end /\ end <= sl.length
  /\ sl' = DeleteRangeByRank(sl, start, end)
  /\ zref' = zref \ {Sorted(zref)[i] : i \in start..end}

SkipNext ==
  \/ \E s \in SkipScore, e \in 1..SkipEle :
       (\E h \in Levels : SkipInsert(s, e, h)) \/ SkipDelete(s, e)
  \/ \E r \in SkipRange : SkipDeleteRangeByScore(r)
  \/ \E r \in LexRange : SkipDeleteRangeByLex(r)
  \/ \E i, j \in 1..SkipEle : SkipDeleteRangeByRank(i, j)

-----------------------------------------------------------------------------
(* Properties.                                                             *)

\* After any sequence of insertions and deletions by node, score, element or
\* rank: the lowest level is the sorted set; backward pointers and tail mirror
\* it; every higher level links exactly the nodes tall enough; every span is
\* the number of lowest-level links it skips, to the end for a NULL pointer;
\* and the list has no level above its tallest node.
SkipExact ==
  LET order == NodesFrom(sl, sl.node[Header].fwd[1])
      Pos(n) == IF n = Header THEN 0 ELSE CHOOSE i \in DOMAIN order : order[i] = n
  IN  /\ [i \in DOMAIN order |-> <<sl.node[order[i]].score, order[i]>>] = Sorted(zref)
      /\ sl.length = Len(order)
      /\ sl.tail = IF order = <<>> THEN Null ELSE Last(order)
      /\ \A i \in DOMAIN order : sl.node[order[i]].back = IF i = 1 THEN Null ELSE order[i - 1]
      /\ sl.level = Max({1} \cup {sl.node[order[i]].height : i \in DOMAIN order})
      /\ \A n \in {Header} \cup ToSet(order) : \A i \in 1..sl.level :
           (n = Header \/ i <= sl.node[n].height) =>
             LET later == {j \in DOMAIN order : j > Pos(n) /\ sl.node[order[j]].height >= i}
             IN  /\ sl.node[n].fwd[i] = IF later = {} THEN Null ELSE order[Min(later)]
                 /\ sl.node[n].span[i] =
                      (IF later = {} THEN Len(order) ELSE Min(later)) - Pos(n)

\* Rank and range queries, which skip along the levels, give what a linear
\* reading of the sorted set gives.
SkipQueries ==
  LET s == Sorted(zref)
      Ref(r, c) == {i \in DOMAIN s : ValueGteMin(s[i][c], r) /\ ValueLteMax(s[i][c], r)}
      score == [n \in SkipNode |-> sl.node[n].score]
      element == [n \in SkipNode |-> n]
      Ele(S, Pick(_)) == IF S = {} THEN Null ELSE s[Pick(S)][2]
  IN  /\ \A i \in DOMAIN s : /\ GetRank(sl, s[i][1], s[i][2]) = i
                             /\ GetElementByRank(sl, i) = s[i][2]
      /\ GetElementByRank(sl, Len(s) + 1) = Null
      /\ \A r \in SkipRange :
           /\ ZslFirstInRange(sl, r, score) = Ele(Ref(r, 1), Min)
           /\ ZslLastInRange(sl, r, score) = Ele(Ref(r, 1), Max)
      /\ Cardinality({p[1] : p \in zref}) = 1 =>
           \A r \in LexRange :
             /\ ZslFirstInRange(sl, r, element) = Ele(Ref(r, 2), Min)
             /\ ZslLastInRange(sl, r, element) = Ele(Ref(r, 2), Max)
=============================================================================

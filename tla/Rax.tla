-------------------------------- MODULE Rax --------------------------------
(***************************************************************************)
(* The radix tree of rax.c.  A node is a record: whether a key ends there, *)
(* whether it is compressed (one child reached through all its characters) *)
(* its characters and its children.  A node is addressed by the path of    *)
(* child positions that leads to it, which is what the raxStack holds.     *)
(* Allocation never fails here, and no key is as long as RAX_NODE_MAX_SIZE.*)
(***************************************************************************)
EXTENDS Integers, Sequences, FiniteSets, FiniteSetsExt, SequencesExt

CONSTANTS RaxKey,    \* the keys inserted and removed: sequences of integers
          RaxProbe   \* the keys looked up and seeked

VARIABLES rax,       \* [head, numele, numnodes]
          raxref     \* the set of keys the tree should hold

raxVars == <<rax, raxref>>

RaxNewNode(iskey) == [key |-> iskey, compr |-> FALSE, chars |-> <<>>, kids |-> <<>>]

RaxNew == [head |-> RaxNewNode(FALSE), numele |-> 0, numnodes |-> 1]

RECURSIVE RaxAt(_, _)
RaxAt(h, path) ==
  IF path = <<>> THEN h ELSE RaxAt(h.kids[Head(path)], Tail(path))

RECURSIVE RaxReplace(_, _, _)
RaxReplace(h, path, new) ==
  IF path = <<>> THEN new
  ELSE [h EXCEPT !.kids[Head(path)] = RaxReplace(@, Tail(path), new)]

RaxCommon(a, b) ==
  Max({j \in 0..Min({Len(a), Len(b)}) : \A k \in 1..j : a[k] = b[k]})

RECURSIVE RaxWalkFrom(_, _, _, _)
RaxWalkFrom(h, s, i, path) ==
  LET j == RaxCommon(h.chars, SubSeq(s, i + 1, Len(s)))
      c == {k \in DOMAIN h.chars : h.chars[k] = s[i + 1]}
      stop(n, at) == [i |-> n, path |-> path, split |-> at]
  IN CASE h.kids = <<>> \/ i = Len(s) -> stop(i, 0)
       [] h.kids # <<>> /\ i < Len(s) /\ h.compr ->
            IF j # Len(h.chars) THEN stop(i + j, j)
            ELSE RaxWalkFrom(h.kids[1], s, i + j, Append(path, 1))
       [] h.kids # <<>> /\ i < Len(s) /\ ~h.compr ->
            IF c = {} THEN stop(i, 0)
            ELSE RaxWalkFrom(h.kids[Min(c)], s, i + 1, Append(path, Min(c)))

\* raxLowWalk: how many characters of s match, the node reached, and where
\* inside a compressed node the walk stopped.
RaxLowWalk(h, s) == RaxWalkFrom(h, s, 0, <<>>)

RaxWhole(h, s, w) == w.i = Len(s) /\ (~RaxAt(h, w.path).compr \/ w.split = 0)

RaxFind(h, s) ==
  LET w == RaxLowWalk(h, s) IN RaxWhole(h, s, w) /\ RaxAt(h, w.path).key

\* raxAddChild: the new edge goes where the characters stay sorted.
RaxAddChild(h, c, child) ==
  LET pos == 1 + Cardinality({k \in DOMAIN h.chars : h.chars[k] < c})
  IN [h EXCEPT !.chars = InsertAt(@, pos, c), !.kids = InsertAt(@, pos, child)]

RaxCompressNode(h, s, child) == [h EXCEPT !.compr = TRUE, !.chars = s, !.kids = <<child>>]

\* The tail of raxGenericInsert: what is left of the key below node h.
RECURSIVE RaxGrow(_, _)
RaxGrow(h, rest) ==
  CASE rest = <<>> -> [h EXCEPT !.key = TRUE]
    [] h.kids = <<>> /\ Len(rest) > 1 -> RaxCompressNode(h, rest, RaxNewNode(TRUE))
    [] rest # <<>> /\ ~(h.kids = <<>> /\ Len(rest) > 1) ->
         RaxAddChild(h, Head(rest), RaxGrow(RaxNewNode(FALSE), Tail(rest)))

RaxGrown(h, rest) ==
  CASE rest = <<>> -> 0
    [] h.kids = <<>> /\ Len(rest) > 1 -> 1
    [] rest # <<>> /\ ~(h.kids = <<>> /\ Len(rest) > 1) -> 1 + (IF Len(rest) > 1 THEN 1 ELSE 0)

RaxPart(iskey, chars, next) ==
  [key |-> iskey, compr |-> Len(chars) > 1, chars |-> chars, kids |-> <<next>>]

\* Algorithm 1 of raxGenericInsert: the key departs from compressed node h
\* after j of its characters.  The prefix, the split node and the postfix
\* replace it, and the rest of the key grows from the split node.
RaxSplitMismatch(h, j, rest) ==
  LET post  == SubSeq(h.chars, j + 2, Len(h.chars))
      below == IF post = <<>> THEN h.kids[1] ELSE RaxPart(FALSE, post, h.kids[1])
      split == RaxPart(j = 0 /\ h.key, <<h.chars[j + 1]>>, below)
      grown == RaxGrow(split, rest)
  IN IF j = 0 THEN grown ELSE RaxPart(h.key, SubSeq(h.chars, 1, j), grown)

\* Algorithm 2: the key ends inside compressed node h after j characters.
RaxSplitInside(h, j) ==
  RaxPart(h.key, SubSeq(h.chars, 1, j),
          RaxPart(TRUE, SubSeq(h.chars, j + 1, Len(h.chars)), h.kids[1]))

RaxInsert(t, s) ==
  LET new(node, nodes) == [node |-> node, nodes |-> nodes]
      pieces(h, j) == (IF j > 0 THEN 1 ELSE 0) + (IF j + 1 < Len(h.chars) THEN 1 ELSE 0)
      put(h, w, rest) ==
        CASE RaxWhole(t.head, s, w) -> new([h EXCEPT !.key = TRUE], 0)
          [] h.compr /\ w.i # Len(s) ->
               new(RaxSplitMismatch(h, w.split, rest),
                   pieces(h, w.split) + RaxGrown(RaxPart(FALSE, <<0>>, h), rest))
          [] h.compr /\ w.i = Len(s) /\ w.split > 0 -> new(RaxSplitInside(h, w.split), 1)
          [] ~h.compr /\ w.i # Len(s) -> new(RaxGrow(h, rest), RaxGrown(h, rest))
      with(w, n) == [head |-> RaxReplace(t.head, w.path, n.node),
                     numele |-> t.numele + 1, numnodes |-> t.numnodes + n.nodes]
      at(w, h) == IF RaxWhole(t.head, s, w) /\ h.key THEN t
                  ELSE with(w, put(h, w, SubSeq(s, w.i + 1, Len(s))))
      walked(w) == at(w, RaxAt(t.head, w.path))
  IN walked(RaxLowWalk(t.head, s))

\* A node that can be merged with the one above or below it.
RaxLink(n) == ~n.key /\ (n.compr \/ Len(n.chars) = 1)

\* raxRemoveChild: the k-th child goes; a compressed node becomes empty.
RaxRemoveChild(h, k) ==
  IF h.compr THEN [RaxNewNode(FALSE) EXCEPT !.key = h.key]
  ELSE [h EXCEPT !.chars = RemoveAt(@, k), !.kids = RemoveAt(@, k)]

\* The cleanup loop of raxRemove: the length of the path to the deepest
\* ancestor that must stay.
RECURSIVE RaxKeep(_, _)
RaxKeep(head, path) ==
  LET up == Front(path)
  IN IF up = <<>> \/ ~RaxLink(RaxAt(head, up)) THEN up ELSE RaxKeep(head, up)

RECURSIVE RaxStart(_, _)
RaxStart(head, path) ==
  IF path # <<>> /\ RaxLink(RaxAt(head, Front(path))) THEN RaxStart(head, Front(path)) ELSE path

RECURSIVE RaxMerged(_)
RaxMerged(h) ==
  LET c == h.kids[1]
      m == RaxMerged(c)
  IN IF RaxLink(c) THEN [chars |-> h.chars \o m.chars, nodes |-> 1 + m.nodes, below |-> m.below]
     ELSE [chars |-> h.chars, nodes |-> 1, below |-> c]

\* The end of raxRemove: merge the chain of one-child nodes around path.
RaxCompressPath(t, path) ==
  LET merge(start, m) ==
        IF m.nodes = 1 THEN t
        ELSE [t EXCEPT !.head = RaxReplace(t.head, start,
                                  [key |-> FALSE, compr |-> TRUE, chars |-> m.chars,
                                   kids |-> <<m.below>>]),
                       !.numnodes = @ + 1 - m.nodes]
      from(start) == merge(start, RaxMerged(RaxAt(t.head, start)))
  IN from(RaxStart(t.head, path))

RaxRemove(t, s) ==
  LET unset(path, h) == [t EXCEPT !.head = RaxReplace(t.head, path, [h EXCEPT !.key = FALSE]),
                                  !.numele = @ - 1]
      compress(u, path, n) == IF Len(n.chars) = 1 /\ ~n.key THEN RaxCompressPath(u, path) ELSE u
      \* A leaf goes, with the nodes above it up to the one at keep.
      drop(u, path, keep, new) ==
        compress([u EXCEPT !.head = RaxReplace(u.head, keep, new),
                           !.numnodes = @ - (Len(path) - Len(keep))], keep, new)
      cut(u, path, keep) == drop(u, path, keep, RaxRemoveChild(RaxAt(u.head, keep), path[Len(keep) + 1]))
      clean(u, path, h) == CASE h.kids # <<>> -> compress(u, path, [h EXCEPT !.key = FALSE])
                             [] h.kids = <<>> /\ path = <<>> -> u
                             [] OTHER -> cut(u, path, RaxKeep(u.head, path))
      at(path, h) == clean(unset(path, h), path, h)
      found(path) == at(path, RaxAt(t.head, path))
  IN IF RaxFind(t.head, s) THEN found(RaxLowWalk(t.head, s).path) ELSE t

-----------------------------------------------------------------------------
(* Iterators: [path, key, eof].  The JUST_SEEKED flag only makes the first *)
(* raxNext or raxPrev after a seek return the element the seek found.      *)

RaxDown(head, it, k) ==
  LET n == RaxAt(head, it.path)
  IN [it EXCEPT !.path = Append(@, k),
                !.key = @ \o (IF n.compr THEN n.chars ELSE <<n.chars[k]>>)]

\* One level up, or (noup) only the characters of the node itself removed.
RaxUp(head, it, noup) ==
  LET path == IF noup THEN it.path ELSE Front(it.path)
      n == RaxAt(head, path)
  IN [it EXCEPT !.path = path,
                !.key = SubSeq(@, 1, Len(@) - (IF n.compr THEN Len(n.chars) ELSE 1))]

RaxSiblings(head, path, noup, P(_)) ==
  LET n == RaxAt(head, path)
  IN IF n.compr \/ Len(n.chars) <= (IF noup THEN 0 ELSE 1) THEN {}
     ELSE {k \in DOMAIN n.chars : P(n.chars[k])}

RECURSIVE RaxNextFrom(_, _, _), RaxNextUp(_, _, _)
RaxNextFrom(head, it, noup) ==
  LET on(d) == IF RaxAt(head, d.path).key THEN d ELSE RaxNextFrom(head, d, FALSE)
  IN IF noup \/ RaxAt(head, it.path).kids = <<>> THEN RaxNextUp(head, it, noup)
     ELSE on(RaxDown(head, it, 1))
RaxNextUp(head, it, noup) ==
  LET on(d) == IF RaxAt(head, d.path).key THEN d ELSE RaxNextFrom(head, d, FALSE)
      beside(u, c) == IF c = {} THEN RaxNextUp(head, u, FALSE) ELSE on(RaxDown(head, u, Min(c)))
      up(u) == beside(u, RaxSiblings(head, u.path, noup, LAMBDA x : x > Last(it.key)))
  IN IF ~noup /\ it.path = <<>> THEN [it EXCEPT !.eof = TRUE] ELSE up(RaxUp(head, it, noup))

RECURSIVE RaxSeekGreatest(_, _)
RaxSeekGreatest(head, it) ==
  LET n == RaxAt(head, it.path)
  IN IF n.kids = <<>> THEN it ELSE RaxSeekGreatest(head, RaxDown(head, it, Len(n.kids)))

RECURSIVE RaxPrevFrom(_, _, _)
RaxPrevFrom(head, it, noup) ==
  LET on(g) == IF RaxAt(head, g.path).key THEN g ELSE RaxPrevFrom(head, g, FALSE)
      beside(u, c) == on(IF c = {} THEN u ELSE RaxSeekGreatest(head, RaxDown(head, u, Max(c))))
      up(u) == beside(u, RaxSiblings(head, u.path, noup, LAMBDA x : x < Last(it.key)))
  IN IF ~noup /\ it.path = <<>> THEN [it EXCEPT !.eof = TRUE] ELSE up(RaxUp(head, it, noup))

\* At the end the iterator goes back to the element it was on.
RaxNext(t, it) ==
  LET to(n) == IF n.eof THEN [it EXCEPT !.eof = TRUE] ELSE n
  IN to(RaxNextFrom(t.head, it, FALSE))

RaxPrev(t, it) ==
  LET to(n) == IF n.eof THEN [it EXCEPT !.eof = TRUE] ELSE n
  IN to(RaxPrevFrom(t.head, it, FALSE))

RECURSIVE RaxKeyOf(_, _)
RaxKeyOf(head, path) ==
  IF path = <<>> THEN <<>>
  ELSE (IF head.compr THEN head.chars ELSE <<head.chars[Head(path)]>>)
         \o RaxKeyOf(head.kids[Head(path)], Tail(path))

\* Mutant: a compressed node that sorts above the key is entered anyway.
RaxSeekInside_Deeper(head, at, op, nodechar, keychar) ==
  LET n == RaxAt(head, at.path)
      all == [at EXCEPT !.key = @ \o n.chars]
  IN IF op \in {">", ">="} THEN RaxNextFrom(head, at, FALSE)
     ELSE IF nodechar < keychar THEN RaxSeekGreatest(head, at)
          ELSE RaxPrevFrom(head, all, TRUE)

\* raxSeek where the key departs inside a compressed node.
RaxSeekInside(head, at, op, nodechar, keychar) ==
  LET n == RaxAt(head, at.path)
      all == [at EXCEPT !.key = @ \o n.chars]
  IN IF op \in {">", ">="}
     THEN IF nodechar > keychar THEN RaxNextFrom(head, at, FALSE)
          ELSE RaxNextFrom(head, all, TRUE)
     ELSE IF nodechar < keychar THEN RaxSeekGreatest(head, at)
          ELSE RaxPrevFrom(head, all, TRUE)

RaxSeek(t, op, ele) ==
  LET head == t.head
      exact(w, n) == op \in {"=", ">=", "<="} /\ RaxWhole(head, ele, w) /\ n.key
      beside(it, noup) == IF op \in {">", ">="} THEN RaxNextFrom(head, it, noup)
                          ELSE RaxPrevFrom(head, it, noup)
      seek(w, n, at) ==
        CASE exact(w, n) -> at
          [] ~exact(w, n) /\ op = "=" -> [at EXCEPT !.eof = TRUE]
          [] ~exact(w, n) /\ op # "=" /\ w.i # Len(ele) /\ n.compr ->
               RaxSeekInside(head, at, op, n.chars[w.split + 1], ele[w.i + 1])
          [] OTHER -> IF w.i = Len(ele) THEN beside(at, FALSE)
                      ELSE beside([at EXCEPT !.key = Append(@, ele[w.i + 1])], TRUE)
      walked(w) == seek(w, RaxAt(head, w.path),
                        [path |-> w.path, key |-> RaxKeyOf(head, w.path), eof |-> FALSE])
  IN IF t.numele = 0 THEN [path |-> <<>>, key |-> <<>>, eof |-> TRUE] ELSE walked(RaxLowWalk(head, ele))

\* "^" seeks ">=" the empty key and "$" the greatest leaf.
RaxSeekLast(t) ==
  RaxSeekGreatest(t.head, [path |-> <<>>, key |-> <<>>, eof |-> FALSE])

-----------------------------------------------------------------------------
RaxInit == rax = RaxNew /\ raxref = {}

RaxInsertOp ==
  \E s \in RaxKey : rax' = RaxInsert(rax, s) /\ raxref' = raxref \cup {s}

RaxRemoveOp ==
  \E s \in RaxKey : rax' = RaxRemove(rax, s) /\ raxref' = raxref \ {s}

RaxNextOp == RaxInsertOp \/ RaxRemoveOp

-----------------------------------------------------------------------------
RECURSIVE RaxCount(_)
RaxCount(h) == 1 + MapThenSumSet(LAMBDA k : RaxCount(h.kids[k]), DOMAIN h.kids)

RaxLess(a, b) ==
  LET j == RaxCommon(a, b)
  IN IF j = Len(a) THEN j < Len(b) ELSE j < Len(b) /\ a[j + 1] < b[j + 1]

\* The tree holds exactly the keys inserted and not removed, whatever splits
\* and merges of nodes raxInsert and raxRemove went through, and its two
\* counters numele and numnodes are the numbers of keys and of nodes
\* (raxFree asserts the second).
RaxExact ==
  /\ \A s \in RaxProbe : RaxFind(rax.head, s) <=> s \in raxref
  /\ rax.numele = Cardinality(raxref)
  /\ rax.numnodes = RaxCount(rax.head)

RaxBest(op, s) ==
  CASE op = "=" -> {s} \cap raxref
    [] op \in {">", ">="} ->
         LET c == {k \in raxref : RaxLess(s, k) \/ (op = ">=" /\ k = s)}
         IN {k \in c : \A o \in c \ {k} : RaxLess(k, o)}
    [] op \in {"<", "<="} ->
         LET c == {k \in raxref : RaxLess(k, s) \/ (op = "<=" /\ k = s)}
         IN {k \in c : \A o \in c \ {k} : RaxLess(o, k)}

RaxHit(it) == IF it.eof THEN {} ELSE {it.key}

\* The walk for s ends in the middle of a compressed node where a key ends.
RaxInsideKey(s) ==
  LET w == RaxLowWalk(rax.head, s)
  IN w.i = Len(s) /\ w.split > 0 /\ RaxAt(rax.head, w.path).key

RaxSeekRight(s, op) ==
  LET Right(it) == /\ RaxHit(it) = RaxBest(op, s)
                   /\ ~it.eof => /\ RaxHit(RaxNext(rax, it)) = RaxBest(">", it.key)
                                 /\ RaxHit(RaxPrev(rax, it)) = RaxBest("<", it.key)
  IN Right(RaxSeek(rax, op, s))

\* raxSeek with every operator finds the key the lexicographic order says,
\* for keys that leave the tree inside a compressed node, at a branch or at a
\* leaf; and raxNext and raxPrev from there give its two neighbours, or the
\* end of the iteration.  Left out is the one case the code gets wrong: "<" and
\* "<=" of a key that ends in the middle of a compressed node where a key ends
\* step back from that node, although the node's own key is the answer.
RaxSeeks ==
  raxref # {} =>
  /\ \A s \in RaxProbe, op \in {"=", ">", ">=", "<", "<="} :
       (op \in {"<", "<="} /\ RaxInsideKey(s)) \/ RaxSeekRight(s, op)
  /\ \A k \in raxref : ~RaxLess(RaxSeekLast(rax).key, k)
=============================================================================

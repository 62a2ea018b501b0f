------------------------------ MODULE Quicklist ------------------------------
(***************************************************************************)
(* The list type's quicklist (quicklist.c): a chain of nodes, each holding *)
(* up to a fill factor of entries, whose interior nodes are compressed.    *)
(* Nodes are decompressed for use and flagged for recompression; code that *)
(* works at the two ends assumes end nodes are never compressed.           *)
(*                                                                         *)
(* A node is a record of its id (its address), entries, count field,       *)
(* encoding and recompress flag; the chain is a sequence of nodes.  The    *)
(* fill factor limits the entries of a node (a positive                    *)
(* list-max-ziplist-size); every node is large enough to be compressed.    *)
(* A ziplist operation on a node that is still compressed sets corrupt;    *)
(* flagged is a ghost: some command left a node flagged.                   *)
(***************************************************************************)
EXTENDS Integers, Sequences, FiniteSets, FiniteSetsExt, SequencesExt

CONSTANTS QlValue,      \* the list elements used
          QlFill,       \* list-max-ziplist-size
          QlDepth,      \* list-compress-depth
          QlMaxLen,     \* bound: elements of the list
          QlMaxReads    \* bound: LINDEX and LRANGE calls of a behaviour

VARIABLES ql,           \* the quicklist
          lref,         \* ghost: the list it should hold
          qlReads       \* reads so far

qlVars == <<ql, lref, qlReads>>

EmptyQl == [nodes |-> <<>>, len |-> 0, count |-> 0, corrupt |-> FALSE, flagged |-> FALSE]

Fresh(q) == Min(1..(Len(q.nodes) + 1) \ {q.nodes[i].id : i \in DOMAIN q.nodes})

NewNode(q, ents) ==
  [id |-> Fresh(q), ent |-> ents, count |-> Len(ents), lzf |-> FALSE, re |-> FALSE]

\* The position of node id in the chain, 0 when it is not there.
PosOf(q, id) == SelectInSeq(q.nodes, LAMBDA n: n.id = id)

NodeOf(q, id) == q.nodes[PosOf(q, id)]

\* The id at position i, 0 outside the chain.
IdAt(q, i) == IF i \in DOMAIN q.nodes THEN q.nodes[i].id ELSE 0

\* Addresses only matter within a command: nodes renumbered by position.
Settled(q) == [q EXCEPT !.nodes = [i \in DOMAIN @ |-> [@[i] EXCEPT !.id = i]],
                        !.flagged = @ \/ \E i \in DOMAIN q.nodes : q.nodes[i].re]

QlContents(q) == FlattenSeq([i \in DOMAIN q.nodes |-> q.nodes[i].ent])

\* A ziplist operation on node id, which gives it entries ents.
Edit(q, id, ents, count) ==
  LET at(p) == [q EXCEPT !.nodes[p].ent = ents, !.nodes[p].count = count,
                         !.corrupt = @ \/ q.nodes[p].lzf]
  IN  at(PosOf(q, id))

-----------------------------------------------------------------------------
(* Compression.                                                            *)

CompressNode(q, id) ==
  LET at(p) == IF p = 0 \/ q.nodes[p].lzf THEN q
               ELSE [q EXCEPT !.nodes[p].lzf = TRUE, !.nodes[p].re = FALSE]
  IN  at(PosOf(q, id))

DecompressNode(q, id) ==
  LET at(p) == IF p = 0 THEN q ELSE [q EXCEPT !.nodes[p].lzf = FALSE] IN at(PosOf(q, id))

DecompressNodeForUse(q, id) ==
  LET at(p) == IF p = 0 \/ ~q.nodes[p].lzf THEN q
               ELSE [q EXCEPT !.nodes[p].lzf = FALSE, !.nodes[p].re = TRUE]
  IN  at(PosOf(q, id))

\* __quicklistCompress: decompress the ends to the configured depth, compress
\* node id when it is further inside, and the first nodes beyond the depth.
CompressInterior(q, id) ==
  LET n == Len(q.nodes)
      meet == {j \in 1..QlDepth : j = n + 1 - j}
      deep == IF meet = {} THEN QlDepth ELSE Min(meet)
      ends == (1..deep) \cup ((n + 1 - deep)..n)
      opened == [q EXCEPT !.nodes = [i \in 1..n |->
                   IF i \in ends THEN [q.nodes[i] EXCEPT !.lzf = FALSE] ELSE q.nodes[i]]]
      inside(s) == IF PosOf(q, id) \in ends THEN s ELSE CompressNode(s, id)
      beyond(s) == IF QlDepth + 1 > 2
                   THEN CompressNode(CompressNode(s, IdAt(q, QlDepth + 1)), IdAt(q, n - QlDepth))
                   ELSE s
  IN  CASE QlDepth = 0 \/ q.len < 2 * QlDepth -> q
        [] ~(QlDepth = 0 \/ q.len < 2 * QlDepth) /\ meet # {} -> opened
        [] OTHER -> beyond(inside(opened))

\* The quicklistCompress macro: a node decompressed for use is compressed
\* wherever it is in the chain.
Compress(q, id) ==
  IF NodeOf(q, id).re THEN CompressNode(q, id) ELSE CompressInterior(q, id)

RecompressOnly(q, id) == IF NodeOf(q, id).re THEN CompressNode(q, id) ELSE q

-----------------------------------------------------------------------------
(* Nodes.                                                                  *)

\* __quicklistInsertNode: the old neighbour is compressed, then len grows.
InsertNode(q, old, node, after) ==
  LET linked(p) == [q EXCEPT !.nodes = InsertAt(@, IF after THEN p + 1 ELSE IF p = 0 THEN 1 ELSE p, node)]
      settled(s) == IF PosOf(q, old) = 0 THEN s ELSE Compress(s, old)
      longer(s) == [s EXCEPT !.len = @ + 1]
  IN  longer(settled(linked(PosOf(q, old))))

DelNode(q, id) ==
  LET shorter(s) == [s EXCEPT !.count = @ - NodeOf(q, id).count, !.len = @ - 1]
  IN  shorter(CompressInterior([q EXCEPT !.nodes = RemoveAt(@, PosOf(q, id))], 0))

AllowInsert(q, id) == PosOf(q, id) # 0 /\ NodeOf(q, id).count < QlFill

AllowMerge(q, a, b) ==
  /\ PosOf(q, a) # 0 /\ PosOf(q, b) # 0
  /\ NodeOf(q, a).count + NodeOf(q, b).count <= QlFill

\* _quicklistZiplistMerge: the node with more entries survives.
ZiplistMerge(q, a, b) ==
  LET Joined(p, A, B) ==
        LET keep == IF Len(A.ent) >= Len(B.ent) THEN a ELSE b
            drop == IF keep = a THEN b ELSE a
            Unlink(r) == DelNode([r EXCEPT !.nodes[PosOf(r, drop)].count = 0], drop)
        IN  [q |-> Compress(Unlink(Edit(p, keep, A.ent \o B.ent, Len(A.ent) + Len(B.ent))), keep),
             keep |-> keep]
      Both(p) == Joined(p, NodeOf(p, a), NodeOf(p, b))
  IN  Both(DecompressNode(DecompressNode(q, a), b))

\* _quicklistMergeNodes: the two before, the two after, then the centre with
\* what is now before it and after it.
MergeNodes(q, center) ==
  LET Merge(r, a, b) == IF AllowMerge(r.q, a, b) THEN ZiplistMerge(r.q, a, b) ELSE r
      Pair(r, a, b) == [q |-> Merge(r, a, b).q, keep |-> center]
      Beside(r, step) == IdAt(r.q, PosOf(r.q, r.keep) + step)
      Centre(r, step) == IF step < 0 THEN Merge(r, Beside(r, step), r.keep)
                         ELSE Merge(r, r.keep, Beside(r, step))
      At(i) == IdAt(q, PosOf(q, center) + i)
  IN  Centre(Centre(Pair(Pair([q |-> q, keep |-> center], At(-2), At(-1)), At(1), At(2)), -1), 1).q

-----------------------------------------------------------------------------
(* Operations on entries.                                                  *)

Counted(q, n) == [q EXCEPT !.count = @ + n]

PushHead(q, v) ==
  LET h == IdAt(q, 1)
  IN  Counted(IF AllowInsert(q, h)
              THEN Edit(q, h, <<v>> \o NodeOf(q, h).ent, NodeOf(q, h).count + 1)
              ELSE InsertNode(q, h, NewNode(q, <<v>>), FALSE), 1)

PushTail(q, v) ==
  LET t == IdAt(q, Len(q.nodes))
  IN  Counted(IF AllowInsert(q, t)
              THEN Edit(q, t, Append(NodeOf(q, t).ent, v), NodeOf(q, t).count + 1)
              ELSE InsertNode(q, t, NewNode(q, <<v>>), TRUE), 1)

\* quicklistDelIndex: entry i of node id; gone when the node went with it.
DelIndex(q, id, i) ==
  LET n == NodeOf(q, id)
      left(s) == IF n.count = 1 THEN DelNode(s, id) ELSE s
  IN  [q |-> Counted(left(Edit(q, id, RemoveAt(n.ent, i), n.count - 1)), -1), gone |-> n.count = 1]

\* quicklistPopCustom.
Pop(q, head) ==
  LET id == IF head THEN IdAt(q, 1) ELSE IdAt(q, Len(q.nodes))
  IN  DelIndex(q, id, IF head THEN 1 ELSE Len(NodeOf(q, id).ent)).q

\* Entry number k of a node, k from 0 at the head or from -1 at the tail.
Slot(n, k) == IF k >= 0 THEN k + 1 ELSE Len(n.ent) + 1 + k

\* quicklistIndex: the node and offset of element idx, which is decompressed
\* for use; id 0 when there is none.
QlIndex(q, idx) ==
  LET index == IF idx < 0 THEN -idx - 1 ELSE idx
      n == Len(q.nodes)
      Counts(i) == IF idx < 0 THEN q.nodes[n + 1 - i].count ELSE q.nodes[i].count
      Upto(i) == MapThenSumSet(Counts, 1..i)
      hop == Min({i \in 1..n : Upto(i) > index})
      id == IF idx < 0 THEN IdAt(q, n + 1 - hop) ELSE IdAt(q, hop)
      off == index - Upto(hop - 1)
  IN  IF index >= q.count THEN [q |-> q, id |-> 0, off |-> 0]
      ELSE [q |-> DecompressNodeForUse(q, id), id |-> id,
            off |-> IF idx < 0 THEN -off - 1 ELSE off]

ReplaceAtIndex(q, idx, v) ==
  LET put(e, n) == Compress(Edit(e.q, e.id, [n.ent EXCEPT ![Slot(n, e.off)] = v], n.count), e.id)
      at(e) == IF e.id = 0 THEN q ELSE put(e, NodeOf(e.q, e.id))
  IN  at(QlIndex(q, idx))

\* The last branch of _quicklistInsert: the node is split at the entry, the
\* value goes to the new half, and neighbours that fit are merged.
SplitAndInsert(q, e, v, after) ==
  LET cut == IF after THEN e.off + 1 ELSE e.off
      left(s) == SubSeq(s, 1, cut)
      right(s) == SubSeq(s, cut + 1, Len(s))
      halves(s, keep, ents) == InsertNode(Edit(s, e.id, keep, Len(keep)), e.id, NewNode(s, ents), after)
      split(s, ent) == IF after THEN halves(s, left(ent), <<v>> \o right(ent))
                       ELSE halves(s, right(ent), Append(left(ent), v))
      use(s) == split(s, NodeOf(s, e.id).ent)
  IN  MergeNodes(use(DecompressNodeForUse(q, e.id)), e.id)

\* _quicklistInsert before or after entry e.  The test for the last entry of
\* a node compares an offset from 0 with the count, so it never succeeds.
QlInsert(q, e, v, after) ==
  LET n == NodeOf(q, e.id)
      p == PosOf(q, e.id)
      full == ~AllowInsert(q, e.id)
      atTail == after /\ e.off = n.count
      atHead == ~after /\ e.off = 0
      nx == IdAt(q, p + 1)
      pv == IdAt(q, p - 1)
      Added(s, id, at) ==
        RecompressOnly(Edit(s, id, InsertAt(NodeOf(s, id).ent, at, v), NodeOf(s, id).count + 1), id)
      Put(id, at) == Added(DecompressNodeForUse(q, id), id, at)
  IN  Counted(
            IF ~full THEN Put(e.id, e.off + (IF after THEN 2 ELSE 1))
            ELSE IF atTail /\ nx # 0 /\ AllowInsert(q, nx) THEN Put(nx, 1)
            ELSE IF atHead /\ pv # 0 /\ AllowInsert(q, pv) THEN Put(pv, Len(NodeOf(q, pv).ent) + 1)
            ELSE IF (atTail /\ nx # 0) \/ (atHead /\ pv # 0)
            THEN InsertNode(q, e.id, NewNode(q, <<v>>), after)
            ELSE SplitAndInsert(q, e, v, after), 1)

\* How many entries of node n the next round of quicklistDelRange removes.
DelCount(n, off, extent) ==
  IF off >= 0 /\ extent >= n.count THEN n.count - off
  ELSE IF off < 0 THEN Min({-off, extent})
  ELSE extent

RECURSIVE DelFrom(_, _, _, _)
\* The loop of quicklistDelRange from node id.
DelFrom(q, id, off, extent) ==
  IF extent <= 0 \/ PosOf(q, id) = 0 THEN q
  ELSE LET next == IdAt(q, PosOf(q, id) + 1)
           ents(n, s, del) == SubSeq(n.ent, 1, s - 1) \o SubSeq(n.ent, s + del, Len(n.ent))
           cut(n, del) == Counted(Edit(DecompressNodeForUse(q, id), id, ents(n, Slot(n, off), del), n.count - del), -del)
           left(s, emptied) == IF emptied THEN DelNode(s, id) ELSE RecompressOnly(s, id)
           from(n, del) == IF off = 0 /\ extent >= n.count THEN DelNode(q, id)
                           ELSE left(cut(n, del), n.count = del)
           go(n, del) == DelFrom(from(n, del), next, 0, extent - del)
           at(n) == go(n, DelCount(n, off, extent))
       IN  at(NodeOf(q, id))

DelRange(q, start, count) ==
  LET extent == IF start >= 0 THEN Min({count, q.count - start}) ELSE Min({count, -start})
      from(e) == IF count <= 0 \/ e.id = 0 THEN q ELSE DelFrom(e.q, e.id, e.off, extent)
  IN  from(QlIndex(q, start))

-----------------------------------------------------------------------------
(* Iteration.                                                              *)

\* quicklistGetIteratorAtIdx; at is whether the ziplist pointer is set.
IterAt(q, idx, fwd) ==
  LET from(e) == [q |-> e.q, it |-> [cur |-> e.id, off |-> e.off, at |-> FALSE, fwd |-> fwd]]
  IN  from(QlIndex(q, idx))

RECURSIVE QlNext(_, _)
\* quicklistNext: the next entry (id 0 at the end), compressing a node that
\* is left behind.
QlNext(q, it) ==
  LET step == IF it.fwd THEN 1 ELSE -1
      off == IF it.at THEN it.off + step ELSE it.off
      there(n) == Slot(n, off) \in DOMAIN n.ent /\ (it.off < 0 <=> off < 0)
      beyond(s) == QlNext(s, [it EXCEPT !.cur = IdAt(s, PosOf(s, it.cur) + step),
                                        !.off = IF it.fwd THEN 0 ELSE -1, !.at = FALSE])
      in(s) == IF there(NodeOf(s, it.cur))
               THEN [q |-> s, it |-> [it EXCEPT !.off = off, !.at = TRUE], id |-> it.cur, off |-> off]
               ELSE beyond(Compress(s, it.cur))
  IN  IF PosOf(q, it.cur) = 0 THEN [q |-> q, it |-> it, id |-> 0, off |-> 0]
      ELSE in(IF it.at THEN q ELSE DecompressNodeForUse(q, it.cur))

\* quicklistDelEntry: the iterator moves on when its node went.
DelEntry(q, it, e) ==
  LET beside == IdAt(q, PosOf(q, e.id) + (IF it.fwd THEN 1 ELSE -1))
      moved(r) == [q |-> r.q,
                   it |-> IF r.gone
                          THEN [it EXCEPT !.at = FALSE, !.cur = beside, !.off = IF it.fwd THEN 0 ELSE -1]
                          ELSE [it EXCEPT !.at = FALSE]]
  IN  moved(DelIndex(q, e.id, Slot(NodeOf(q, e.id), e.off)))

EntryValue(q, e) == NodeOf(q, e.id).ent[Slot(NodeOf(q, e.id), e.off)]

RECURSIVE Walk(_, _, _)
\* n further calls of quicklistNext, as LRANGE makes them.
Walk(q, it, n) == LET on(r) == Walk(r.q, r.it, n - 1) IN IF n = 0 THEN q ELSE on(QlNext(q, it))

RECURSIVE RemoveLoop(_, _, _, _)
\* The loop of lremCommand: at most n entries equal to v.
RemoveLoop(q, it, v, n) ==
  LET Removed(d) == IF n = 1 THEN d.q ELSE RemoveLoop(d.q, d.it, v, n - 1)
      At(r) == IF r.id = 0 THEN r.q
               ELSE IF EntryValue(r.q, r) # v THEN RemoveLoop(r.q, r.it, v, n)
               ELSE Removed(DelEntry(r.q, r.it, r))
  IN  At(QlNext(q, it))

RECURSIVE InsertLoop(_, _, _, _, _)
\* The loop of linsertCommand: at the first entry equal to pivot.
InsertLoop(q, it, pivot, v, after) ==
  LET At(r) == IF r.id = 0 THEN r.q
               ELSE IF EntryValue(r.q, r) = pivot THEN QlInsert(r.q, r, v, after)
               ELSE InsertLoop(r.q, r.it, pivot, v, after)
  IN  At(QlNext(q, it))

-----------------------------------------------------------------------------
(* Actions: the list commands.                                             *)

QlInit == ql = EmptyQl /\ lref = <<>> /\ qlReads = 0

QlPush(v, head) ==
  /\ Len(lref) < QlMaxLen
  /\ ql' = Settled(IF head THEN PushHead(ql, v) ELSE PushTail(ql, v))
  /\ lref' = IF head THEN <<v>> \o lref ELSE Append(lref, v)
  /\ UNCHANGED qlReads

QlPop(head) ==
  /\ lref # <<>>
  /\ ql' = Settled(Pop(ql, head))
  /\ lref' = IF head THEN Tail(lref) ELSE Front(lref)
  /\ UNCHANGED qlReads

\* LINDEX leaves the node decompressed, with its recompress flag set.
QlLindex(i) ==
  /\ qlReads < QlMaxReads
  /\ i \in (-Len(lref))..(Len(lref) - 1)
  /\ ql' = Settled(QlIndex(ql, i).q)
  /\ qlReads' = qlReads + 1
  /\ UNCHANGED lref

QlLset(i, v) ==
  /\ i \in (-Len(lref))..(Len(lref) - 1)
  /\ ql' = Settled(ReplaceAtIndex(ql, i, v))
  /\ lref' = [lref EXCEPT ![IF i < 0 THEN Len(lref) + 1 + i ELSE i + 1] = v]
  /\ UNCHANGED qlReads

QlLrange(i, j) ==
  /\ qlReads < QlMaxReads
  /\ i <= j /\ j < Len(lref)
  /\ LET from(s) == Walk(s.q, s.it, j - i + 1) IN ql' = Settled(from(IterAt(ql, i, TRUE)))
  /\ qlReads' = qlReads + 1
  /\ UNCHANGED lref

\* LTRIM: a range from each end.
QlLtrim(i, j) ==
  /\ i <= j /\ j < Len(lref)
  /\ LET r == Len(lref) - j - 1 IN ql' = Settled(DelRange(DelRange(ql, 0, i), -r, r))
  /\ lref' = SubSeq(lref, i + 1, j + 1)
  /\ UNCHANGED qlReads

\* The list with the first n elements equal to v removed.
WithoutFirst(s, v, n) ==
  FoldLeft(LAMBDA acc, x :
             IF x = v /\ acc.left > 0 THEN [acc EXCEPT !.left = @ - 1]
             ELSE [acc EXCEPT !.out = Append(@, x)],
           [out |-> <<>>, left |-> n], s).out

\* LREM with a positive count from the head, with a negative one from the tail.
QlLrem(v, n, fwd) ==
  /\ Contains(lref, v)
  /\ LET from(s) == RemoveLoop(s.q, s.it, v, n) IN ql' = Settled(from(IterAt(ql, IF fwd THEN 0 ELSE -1, fwd)))
  /\ lref' = IF fwd THEN WithoutFirst(lref, v, n)
             ELSE Reverse(WithoutFirst(Reverse(lref), v, n))
  /\ UNCHANGED qlReads

QlLinsert(pivot, v, after) ==
  /\ Contains(lref, pivot)
  /\ Len(lref) < QlMaxLen
  /\ LET from(s) == InsertLoop(s.q, s.it, pivot, v, after) IN ql' = Settled(from(IterAt(ql, 0, TRUE)))
  /\ LET i == Min({k \in DOMAIN lref : lref[k] = pivot})
     IN  lref' = InsertAt(lref, IF after THEN i + 1 ELSE i, v)
  /\ UNCHANGED qlReads

QlNextOp == ~ql.corrupt /\
  \/ \E v \in QlValue, b \in BOOLEAN : QlPush(v, b)
  \/ \E b \in BOOLEAN : QlPop(b)
  \/ \E i \in (-2)..(QlMaxLen - 1) : QlLindex(i)
  \/ \E i \in (-2)..(QlMaxLen - 1), v \in QlValue : QlLset(i, v)
  \/ \E i, j \in 0..(QlMaxLen - 1) : QlLrange(i, j) \/ QlLtrim(i, j)
  \/ \E v \in QlValue, n \in 1..2, b \in BOOLEAN : QlLrem(v, n, b)
  \/ \E p, v \in QlValue, b \in BOOLEAN : QlLinsert(p, v, b)

-----------------------------------------------------------------------------
(* Properties.                                                             *)

\* The chain holds the list the commands describe, with no empty node, no
\* node above the fill factor and exact counts, whatever splits, merges and
\* deletions under an iterator produced it, and no ziplist operation meets a
\* compressed node ("quicklistDelIndex() *requires* uncompressed nodes").
\* Left out are lists with list-compress-depth set in which a command (LINDEX,
\* LRANGE, LINSERT, LREM) has left a node decompressed and flagged: when pops
\* make it the head or the tail, the next quicklistCompress() compresses it
\* there, and a later push or pop works on the compressed bytes.
QlExact ==
  /\ ql.corrupt => ql.flagged
  /\ ~ql.corrupt =>
       /\ QlContents(ql) = lref
       /\ ql.count = Len(lref)
       /\ ql.len = Len(ql.nodes)
       /\ \A i \in DOMAIN ql.nodes : LET n == ql.nodes[i]
                                     IN  n.count = Len(n.ent) /\ n.count \in 1..QlFill
=============================================================================

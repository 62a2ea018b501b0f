------------------------------- MODULE Ziplist -------------------------------
(***************************************************************************)
(* The ziplist (ziplist.c): entries stored back to back, each starting     *)
(* with the length of the one before it, in one byte when that is below    *)
(* BigPrevlen and in five otherwise.  An insertion or a deletion can       *)
(* change the width of that field in the next entry, which changes the     *)
(* length of that entry, and so on.                                        *)
(*                                                                         *)
(* An entry is its content (bytes after the field), the stored previous    *)
(* length and the width it is stored in.  Lengths are the real ones.       *)
(***************************************************************************)
EXTENDS Integers, Sequences, FiniteSets, FiniteSetsExt, SequencesExt

CONSTANTS ZlValue,      \* values: [int |-> BOOLEAN, n |-> the integer or the string's length]
          ZlOther,      \* value sequences of the ziplists a merge joins
          ZlLenCap,     \* UINT16_MAX, the length field's "unknown"
          ZlMaxLen      \* bound: entries

VARIABLES zl,           \* [ent, tail, bytes, len]
          zlref         \* ghost: the values it should hold

zlVars == <<zl, zlref>>

BigPrevlen == 254
HeaderSize == 10

\* zipIntSize of the encoding zipTryEncoding picks.
IntSize(n) ==
  IF n \in 0..12 THEN 0
  ELSE IF n \in -128..127 THEN 1
  ELSE IF n \in -32768..32767 THEN 2
  ELSE IF n \in -8388608..8388607 THEN 3
  ELSE 4

\* zipStoreEntryEncoding plus the payload.
Content(v) ==
  IF v.int THEN 1 + IntSize(v.n)
  ELSE v.n + (IF v.n <= 63 THEN 1 ELSE IF v.n <= 16383 THEN 2 ELSE 5)

PrevlenSize(len) == IF len < BigPrevlen THEN 1 ELSE 5

\* zipRawEntryLength.
RawLen(e) == e.psize + e.content

Offset(ents, i) == HeaderSize + MapThenSumSet(LAMBDA j : RawLen(ents[j]), 1..(i - 1))

EmptyZl == [ent |-> <<>>, tail |-> HeaderSize, bytes |-> HeaderSize + 1, len |-> 0]

\* ZIPLIST_INCR_LENGTH: the field stays at the cap once it is there.
IncrLength(z, n) == IF z.len < ZlLenCap THEN [z EXCEPT !.len = @ + n] ELSE z

-----------------------------------------------------------------------------

RECURSIVE Cascade(_, _)
\* __ziplistCascadeUpdate from entry i: widen the next field and go on, or
\* store the length and stop; a field is never narrowed.
Cascade(z, i) ==
  IF i >= Len(z.ent) THEN z
  ELSE LET raw == RawLen(z.ent[i])
           next == z.ent[i + 1]
           need == PrevlenSize(raw)
           extra == need - next.psize
           isTail == z.tail = Offset(z.ent, i + 1)
       IN  IF next.prev = raw THEN z
           ELSE IF next.psize < need
           THEN Cascade([z EXCEPT !.ent[i + 1].psize = need, !.ent[i + 1].prev = raw,
                                  !.bytes = @ + extra,
                                  !.tail = IF isTail THEN @ ELSE @ + extra], i + 1)
           ELSE [z EXCEPT !.ent[i + 1].prev = raw]

\* __ziplistInsert of v before entry i (i = Len + 1: at the end).
ZlInsertAt(z, i, v) ==
  LET atEnd == i = Len(z.ent) + 1
      prevlen == IF ~atEnd THEN z.ent[i].prev
                 ELSE IF z.ent # <<>> THEN RawLen(Last(z.ent)) ELSE 0
      e == [content |-> Content(v), psize |-> PrevlenSize(prevlen), prev |-> prevlen]
      req == RawLen(e)
      want == IF atEnd THEN 0 ELSE PrevlenSize(req) - z.ent[i].psize
      force == want = -4 /\ req < 4
      diff == IF force THEN 0 ELSE want
      z1 == [z EXCEPT !.ent = IF atEnd THEN Append(@, e)
                              ELSE InsertAt([@ EXCEPT ![i].prev = req, ![i].psize = @ + diff], i, e),
                      !.bytes = @ + req + diff,
                      !.tail = IF atEnd THEN z.bytes - 1
                               ELSE IF i < Len(z.ent) THEN @ + req + diff
                               ELSE @ + req]
      z2 == IF diff # 0 THEN Cascade(z1, i + 1) ELSE z1
  IN  IncrLength(z2, 1)

\* __ziplistDelete of num entries from entry i.
ZlDeleteRange(z, i, num) ==
  LET n == Min({num, Len(z.ent) - i + 1})
      first == z.ent[i]
      totlen == MapThenSumSet(LAMBDA j : RawLen(z.ent[j]), i..(i + n - 1))
      atEnd == i + n > Len(z.ent)
      next == z.ent[i + n]
      diff == IF atEnd THEN 0 ELSE PrevlenSize(first.prev) - next.psize
      left == SubSeq(z.ent, 1, i - 1)
      right == SubSeq(z.ent, i + n, Len(z.ent))
      fixed == IF atEnd THEN <<>> ELSE [right EXCEPT ![1].prev = first.prev, ![1].psize = @ + diff]
      z1 == [z EXCEPT !.ent = left \o fixed,
                      !.tail = IF atEnd THEN Offset(z.ent, i) - first.prev
                               ELSE IF Len(right) > 1 THEN @ - totlen + diff
                               ELSE @ - totlen,
                      !.bytes = @ - totlen + diff]
      z2 == IncrLength(z1, -n)
  IN  IF diff # 0 THEN Cascade(z2, i) ELSE z2

\* ziplistMerge: the second's entries after the first's, then the cascade.
ZlMerge(a, b) ==
  Cascade([ent |-> a.ent \o b.ent,
           bytes |-> a.bytes + b.bytes - HeaderSize - 1,
           len |-> Min({a.len + b.len, ZlLenCap}),
           tail |-> a.bytes - 1 + b.tail - HeaderSize],
          Max({1, Len(a.ent)}))

\* ziplistLen: a capped field is recomputed by a scan.
ZlLen(z) == IF z.len < ZlLenCap THEN z.len ELSE Len(z.ent)

\* ziplistIndex with a negative index: from the tail by previous lengths; the
\* byte offset reached, 0 when the start was passed.
RECURSIVE Back(_, _, _)
Back(z, off, k) ==
  LET here == {i \in DOMAIN z.ent : Offset(z.ent, i) = off}
      e == z.ent[CHOOSE i \in here : TRUE]
  IN  IF here = {} THEN -1
      ELSE IF k = 0 THEN off
      ELSE IF e.prev = 0 THEN 0
      ELSE Back(z, off - e.prev, k - 1)

ZlPushAll(vs) == FoldLeft(LAMBDA z, v : ZlInsertAt(z, Len(z.ent) + 1, v), EmptyZl, vs)

-----------------------------------------------------------------------------

ZlInit == zl = EmptyZl /\ zlref = <<>>

ZlInsertOp(i, v) ==
  /\ i <= Len(zlref) + 1
  /\ Len(zlref) < ZlMaxLen
  /\ zl' = ZlInsertAt(zl, i, v)
  /\ zlref' = InsertAt(zlref, i, v)

ZlDeleteOp(i, n) ==
  /\ i <= Len(zlref)
  /\ zl' = ZlDeleteRange(zl, i, n)
  /\ zlref' = SubSeq(zlref, 1, i - 1) \o SubSeq(zlref, i + n, Len(zlref))

\* quicklist nodes are merged in either order, and are never empty.
ZlMergeOp(vs) ==
  /\ zlref # <<>>
  /\ Len(zlref) + Len(vs) <= ZlMaxLen
  /\ \/ zl' = ZlMerge(zl, ZlPushAll(vs)) /\ zlref' = zlref \o vs
     \/ zl' = ZlMerge(ZlPushAll(vs), zl) /\ zlref' = vs \o zlref

ZlNext ==
  \/ \E i \in 1..(ZlMaxLen + 1), v \in ZlValue : ZlInsertOp(i, v)
  \/ \E i, n \in 1..ZlMaxLen : ZlDeleteOp(i, n)
  \/ \E vs \in ZlOther : ZlMergeOp(vs)

\* The entries are the values in order; every stored previous length is the
\* length of the entry before, in a field wide enough for it; byte count and
\* tail offset are exact, so walks from the tail meet every entry; and the
\* length is right although its field is capped.
ZlExact ==
  /\ [i \in DOMAIN zl.ent |-> zl.ent[i].content] = [i \in DOMAIN zlref |-> Content(zlref[i])]
  /\ \A i \in DOMAIN zl.ent : LET e == zl.ent[i] IN
       /\ e.prev = IF i = 1 THEN 0 ELSE RawLen(zl.ent[i - 1])
       /\ e.psize \in {1, 5} /\ e.psize >= PrevlenSize(e.prev)
  /\ zl.bytes = Offset(zl.ent, Len(zl.ent) + 1) + 1
  /\ zl.ent # <<>> => \A k \in 0..Len(zl.ent) :
       Back(zl, zl.tail, k) = IF k < Len(zl.ent) THEN Offset(zl.ent, Len(zl.ent) - k) ELSE 0
  /\ ZlLen(zl) = Len(zlref)
=============================================================================

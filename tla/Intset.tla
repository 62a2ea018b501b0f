------------------------------- MODULE Intset -------------------------------
(***************************************************************************)
(* The intset (intset.c): a sorted array of integers in the smallest of    *)
(* three widths that holds them all.  A value that needs a wider encoding  *)
(* widens every element in place.                                          *)
(*                                                                         *)
(* Memory is a function from cells to the part of a value a cell holds, a  *)
(* value of width w filling w cells, so that an element overwritten before *)
(* it is read comes out as Garbage.                                        *)
(***************************************************************************)
EXTENDS Integers, Sequences, FiniteSets, FiniteSetsExt, SequencesExt

CONSTANTS IsMax16, IsMax32,  \* the largest values of the narrow encodings
          IsValue,           \* the integers used
          IsMaxLen           \* bound: elements

VARIABLES is,           \* [enc, len, mem]
          isref         \* ghost: the set it should hold

isVars == <<is, isref>>

IsGarbage == 99999  \* never a member of IsValue

\* _intsetValueEncoding, in units of the narrowest width.
ValueEncoding(v) ==
  IF v < -IsMax32 - 1 \/ v > IsMax32 THEN 4
  ELSE IF v < -IsMax16 - 1 \/ v > IsMax16 THEN 2
  ELSE 1

\* _intsetGetEncoded: element pos read in width enc.
GetEncoded(mem, pos, enc) ==
  LET v == mem[pos * enc][1]
  IN  IF \A j \in 0..(enc - 1) : mem[pos * enc + j] = <<v, j, enc>> THEN v ELSE IsGarbage

\* _intsetSet.
SetEncoded(mem, pos, enc, v) ==
  [c \in DOMAIN mem |-> IF c \in (pos * enc)..(pos * enc + enc - 1)
                        THEN <<v, c - pos * enc, enc>> ELSE mem[c]]

IsGet(s, pos) == GetEncoded(s.mem, pos, s.enc)

\* intsetResize: cells beyond the old end hold nothing yet.
IsResize(s, len) ==
  [c \in 0..(len * s.enc - 1) |-> IF c \in DOMAIN s.mem THEN s.mem[c] ELSE <<IsGarbage, 0, 0>>]

EmptyIntset == [enc |-> 1, len |-> 0, mem |-> <<>>]

\* intsetSearch: the position of v, or where it belongs.
IsSearch(s, v) ==
  LET B[lo \in 0..(IsMaxLen + 1), hi \in -1..IsMaxLen] ==
        IF hi < lo THEN [found |-> FALSE, pos |-> lo]
        ELSE LET mid == (lo + hi) \div 2
                 cur == IsGet(s, mid)
             IN  IF v > cur THEN B[mid + 1, hi]
                 ELSE IF v < cur THEN B[lo, mid - 1]
                 ELSE [found |-> TRUE, pos |-> mid]
  IN  IF s.len = 0 THEN [found |-> FALSE, pos |-> 0]
      ELSE IF v > IsGet(s, s.len - 1) THEN [found |-> FALSE, pos |-> s.len]
      ELSE IF v < IsGet(s, 0) THEN [found |-> FALSE, pos |-> 0]
      ELSE B[0, s.len - 1]

\* intsetUpgradeAndAdd: elements are rewritten from the last to the first;
\* the new value is beyond all of them, below when it is negative.
UpgradeAndAdd(s, v) ==
  LET new == ValueEncoding(v)
      prepend == IF v < 0 THEN 1 ELSE 0
      s1 == [s EXCEPT !.enc = new]
      start == IsResize(s1, s.len + 1)
      Widen(mem, k) == SetEncoded(mem, k + prepend, new, GetEncoded(mem, k, s.enc))
      moved == FoldLeft(Widen, start, [i \in 1..s.len |-> s.len - i])
  IN  [enc |-> new, len |-> s.len + 1,
       mem |-> SetEncoded(moved, IF prepend = 1 THEN 0 ELSE s.len, new, v)]

\* intsetMoveTail: the cells from element from on move to element to.
MoveTail(s, mem, from, to) ==
  [c \in DOMAIN mem |->
     IF c >= to * s.enc /\ c - (to - from) * s.enc \in (from * s.enc)..(s.len * s.enc - 1)
     THEN mem[c - (to - from) * s.enc] ELSE mem[c]]

IsAdd(s, v) ==
  LET r == IsSearch(s, v)
      grown == IsResize(s, s.len + 1)
  IN  IF ValueEncoding(v) > s.enc THEN UpgradeAndAdd(s, v)
      ELSE IF r.found THEN s
      ELSE [s EXCEPT !.len = @ + 1,
                     !.mem = SetEncoded(MoveTail(s, grown, r.pos, r.pos + 1), r.pos, s.enc, v)]

IsRemove(s, v) ==
  LET r == IsSearch(s, v)
      moved == [s EXCEPT !.mem = MoveTail(s, @, r.pos + 1, r.pos)]
  IN  IF ValueEncoding(v) > s.enc \/ ~r.found THEN s
      ELSE [moved EXCEPT !.len = @ - 1, !.mem = IsResize(moved, s.len - 1)]

IsFind(s, v) == ValueEncoding(v) <= s.enc /\ IsSearch(s, v).found

-----------------------------------------------------------------------------

IsInit == is = EmptyIntset /\ isref = {}

IsAddOp(v) ==
  /\ is.len < IsMaxLen
  /\ is' = IsAdd(is, v)
  /\ isref' = isref \cup {v}

IsRemoveOp(v) ==
  /\ is' = IsRemove(is, v)
  /\ isref' = isref \ {v}

IsNext == \E v \in IsValue : IsAddOp(v) \/ IsRemoveOp(v)

\* The array is the set in increasing order, no element was lost or torn by
\* an upgrade in place or a move of the tail, and the binary search finds
\* exactly the members.
IsExact ==
  /\ [i \in 1..is.len |-> IsGet(is, i - 1)] = SetToSortSeq(isref, <)
  /\ \A v \in IsValue : IsFind(is, v) <=> v \in isref
  /\ DOMAIN is.mem = 0..(is.len * is.enc - 1) \/ is.len = 0
=============================================================================

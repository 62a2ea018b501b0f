------------------------------- MODULE Bitops --------------------------------
(* The bit commands of Redis (bitops.c): SETBIT, GETBIT, BITCOUNT, BITPOS,   *)
(* BITOP and BITFIELD, with the word-at-a-time algorithms they use.          *)
(* bits maps a key to its string, a sequence of bytes, or to NoStr; bref is a  *)
(* reference for it that knows no bytes or words: the length and the set of  *)
(* positions holding a one, position 0 being the first bit of the string;    *)
(* bout is the last reply with the one the reference expects.                *)
(* A byte has 8 bits; the other sizes are scaled down: a long has WordBytes  *)
(* bytes, a long long LLBytes.                                               *)
EXTENDS Integers, FiniteSets, FiniteSetsExt, Sequences, SequencesExt, Bitwise

CONSTANTS
  NoStr,
  BKey,            \* keys
  WordBytes,       \* sizeof(unsigned long)
  LLBytes,         \* sizeof(int64_t)
  PopWords,        \* 32-bit words per round of redisPopcount: 7
  BOffsets,        \* offsets of SETBIT and BITFIELD
  BRanges,         \* start and end of BITCOUNT and BITPOS
  BFills,          \* lengths of strings of ones
  BValues,         \* arguments of BITFIELD SET and INCRBY
  BSteps           \* bound on the number of commands

VARIABLES bits, bref, bout, bsteps

bvars == <<bits, bref, bout, bsteps>>

W == 8 * LLBytes
Unsigned(v) == v % 2^W
Signed(u) == IF Unsigned(u) >= 2^(W - 1) THEN Unsigned(u) - 2^W ELSE Unsigned(u)

BytesOf(s) == IF s = NoStr THEN <<>> ELSE s
BitOf(s, offset) ==
  LET byte == offset \div 8
  IN  IF byte < Len(s) THEN (s[byte + 1] \div 2^(7 - (offset % 8))) % 2 ELSE 0

-----------------------------------------------------------------------------
(* The algorithms                                                            *)

RECURSIVE BitsInByte(_)
BitsInByte(b) == IF b = 0 THEN 0 ELSE (b % 2) + BitsInByte(b \div 2)

CountBytes(s) == FoldSeq(LAMBDA b, n : BitsInByte(b) + n, 0, s)

(* The bytes one round of the loop of redisPopcount takes.                   *)
PopBytes == 4 * PopWords

(* The rounds, each summing the ones of its bytes in the top byte of a       *)
(* 32-bit product, and the bytes that are left.                              *)
RECURSIVE PopRounds(_)
PopRounds(s) ==
  IF Len(s) < PopBytes THEN CountBytes(s)
  ELSE (CountBytes(SubSeq(s, 1, PopBytes)) % 256)
         + PopRounds(SubSeq(s, PopBytes + 1, Len(s)))

(* redisPopcount of a string that starts at an address of this alignment.    *)
RedisPopcount(s, align) ==
  LET head == Min({(4 - align) % 4, Len(s)})
  IN  CountBytes(SubSeq(s, 1, head)) + PopRounds(SubSeq(s, head + 1, Len(s)))

(* The number of leading bytes of s equal to skip, up to the first n.        *)
RECURSIVE SkipBytes(_, _, _)
SkipBytes(s, skip, n) ==
  IF n = 0 \/ s = <<>> THEN 0
  ELSE IF Head(s) # skip THEN 0 ELSE 1 + SkipBytes(Tail(s), skip, n - 1)

RECURSIVE SkipWords(_, _)
SkipWords(s, skip) ==
  IF Len(s) < WordBytes \/ \E i \in 1..WordBytes : s[i] # skip THEN 0
  ELSE WordBytes + SkipWords(SubSeq(s, WordBytes + 1, Len(s)), skip)

(* The word redisBitpos loads, most significant byte first.                  *)
LastWord(s) == [i \in 1..WordBytes |-> IF i <= Len(s) THEN s[i] ELSE 0]

(* redisBitpos: bytes up to a word boundary, then words, then the bits of    *)
(* the word where the search stopped.                                        *)
RedisBitpos(s, bit, align) ==
  LET skip == IF bit = 1 THEN 0 ELSE 255
      head == Min({(WordBytes - align) % WordBytes, Len(s)})
      first == SkipBytes(s, skip, head)
      words == IF first < head THEN 0
               ELSE SkipWords(SubSeq(s, first + 1, Len(s)), skip)
      word == LastWord(SubSeq(s, first + words + 1, Len(s)))
      hits == {i \in 0..(8 * WordBytes - 1) : BitOf(word, i) = bit}
  IN  IF bit = 1 /\ hits = {} THEN -1 ELSE 8 * (first + words) + Min(hits)

SetUnsignedBitfield(s, offset, n, value) ==
  [i \in 1..Len(s) |->
     LET at(b) == 8 * (i - 1) + b - offset
         bitval(b) == IF at(b) \in 0..(n - 1)
                      THEN (Unsigned(value) \div 2^(n - 1 - at(b))) % 2
                      ELSE BitOf(s, 8 * (i - 1) + b)
     IN  FoldSet(LAMBDA b, v : v + bitval(b) * 2^(7 - b), 0, 0..7)]

RECURSIVE GetUnsignedBitfield(_, _, _)
GetUnsignedBitfield(s, offset, n) ==
  IF n = 0 THEN 0
  ELSE 2 * GetUnsignedBitfield(s, offset, n - 1) + BitOf(s, offset + n - 1)

GetSignedBitfield(s, offset, n) ==
  LET u == GetUnsignedBitfield(s, offset, n)
  IN  IF u >= 2^(n - 1) THEN u - 2^n ELSE u

(* checkUnsignedBitfieldOverflow: <<overflow, limit>>; value is unsigned.    *)
CheckUnsignedBitfieldOverflow(value, incr, n, owtype) ==
  LET max == 2^n - 1
      maxincr == Signed(max - value)
      minincr == Signed(-value)
      wrapped == (value + incr) % 2^n
  IN  IF value > max \/ (incr > 0 /\ incr > maxincr)
      THEN <<1, IF owtype = "wrap" THEN wrapped ELSE max>>
      ELSE IF incr < 0 /\ incr < minincr
      THEN <<-1, IF owtype = "wrap" THEN wrapped ELSE 0>>
      ELSE <<0, 0>>

(* checkSignedBitfieldOverflow; the differences it computes may themselves   *)
(* overflow, and wrap around in the builds of this code.                     *)
CheckSignedBitfieldOverflow(value, incr, n, owtype) ==
  LET max == 2^(n - 1) - 1
      min == -max - 1
      maxincr == Signed(max - value)
      minincr == Signed(min - value)
      u == (value + incr) % 2^n
      wrapped == IF u >= 2^(n - 1) THEN u - 2^n ELSE u
  IN  IF \/ value > max
         \/ n # W /\ incr > maxincr
         \/ value >= 0 /\ incr > 0 /\ incr > maxincr
      THEN <<1, IF owtype = "wrap" THEN wrapped ELSE max>>
      ELSE IF \/ value < min
              \/ n # W /\ incr < minincr
              \/ value < 0 /\ incr < 0 /\ incr < minincr
      THEN <<-1, IF owtype = "wrap" THEN wrapped ELSE min>>
      ELSE <<0, 0>>

-----------------------------------------------------------------------------
(* The commands that read                                                    *)

GetBit(k, offset) == BitOf(BytesOf(bits[k]), offset)

(* The start and end of BITCOUNT and BITPOS as positions of bytes.           *)
ClampRange(start, end, len) ==
  LET from(i) == IF i < 0 THEN Max({len + i, 0}) ELSE i
  IN  <<from(start), Min({from(end), len - 1})>>

BitCount(k, start, end, align) ==
  LET s == BytesOf(bits[k])
      r == ClampRange(start, end, Len(s))
  IN  IF (start < 0 /\ end < 0 /\ start > end) \/ r[1] > r[2] THEN 0
      ELSE RedisPopcount(SubSeq(s, r[1] + 1, r[2] + 1), (align + r[1]) % 4)

(* BITPOS; end is NoStr when it is not given.                                  *)
BitPos(k, bit, start, end, align) ==
  LET s == BytesOf(bits[k])
      r == ClampRange(start, IF end = NoStr THEN Len(s) - 1 ELSE end, Len(s))
      bytes == r[2] - r[1] + 1
      pos == RedisBitpos(SubSeq(s, r[1] + 1, r[2] + 1), bit,
                         (align + r[1]) % WordBytes)
  IN  IF bits[k] = NoStr THEN IF bit = 1 THEN -1 ELSE 0
      ELSE IF r[1] > r[2] THEN -1
      ELSE IF end # NoStr /\ bit = 0 /\ pos = 8 * bytes THEN -1
      ELSE IF pos # -1 THEN pos + 8 * r[1] ELSE pos

(* BITFIELD GET copies the bytes around the field to a buffer of one byte    *)
(* more than a long long.                                                    *)
BitfieldGet(s, offset, n, sign) ==
  LET byte == offset \div 8
      buf == [i \in 1..(LLBytes + 1) |->
                IF byte + i <= Len(s) THEN s[byte + i] ELSE 0]
  IN  IF sign THEN GetSignedBitfield(buf, offset - 8 * byte, n)
      ELSE GetUnsignedBitfield(buf, offset - 8 * byte, n)

-----------------------------------------------------------------------------
(* The commands that write                                                   *)

BInit ==
  /\ bits = [k \in BKey |-> NoStr]
  /\ bref = [k \in BKey |-> [len |-> 0, ones |-> {}]]
  /\ bout = [got |-> <<>>, want |-> <<>>]
  /\ bsteps = 0

(* lookupStringForBitCommand: the string, grown with zeros to hold maxbit.   *)
LookupStringForBitCommand(k, maxbit) ==
  LET s == BytesOf(bits[k])
      byte == maxbit \div 8
  IN  [i \in 1..Max({Len(s), byte + 1}) |-> IF i <= Len(s) THEN s[i] ELSE 0]

RefGrown(k, maxbit) ==
  [bref[k] EXCEPT !.len = Max({@, maxbit \div 8 + 1})]

RefGet(r, offset, n, sign) ==
  LET u == FoldSet(LAMBDA i, v : v + 2^(n - 1 - i), 0,
                   {i \in 0..(n - 1) : offset + i \in r.ones})
  IN  IF sign /\ u >= 2^(n - 1) THEN u - 2^n ELSE u

RefPut(r, offset, n, value) ==
  [r EXCEPT !.ones = (@ \ (offset..(offset + n - 1)))
     \cup {offset + i : i \in {j \in 0..(n - 1) :
                                ((value % 2^n) \div 2^(n - 1 - j)) % 2 = 1}}]

SetBit(k, offset, on) ==
  LET s == LookupStringForBitCommand(k, offset)
      byte == offset \div 8
      old == BitOf(s, offset)
      place == 2^(7 - (offset % 8))
  IN  /\ bits' = [bits EXCEPT ![k] = [s EXCEPT ![byte + 1] = @ + (on - old) * place]]
      /\ bref' = [bref EXCEPT ![k] = RefPut(RefGrown(k, offset), offset, 1, on)]
      /\ bout' = [got |-> <<old>>, want |-> <<RefGet(bref[k], offset, 1, FALSE)>>]

(* SET of a string of n ones, by a command of another module.                *)
Fill(k, n) ==
  /\ bits' = [bits EXCEPT ![k] = [i \in 1..n |-> 255]]
  /\ bref' = [bref EXCEPT ![k] = [len |-> n, ones |-> 0..(8 * n - 1)]]
  /\ bout' = [got |-> <<>>, want |-> <<>>]

(* The bytes the word loop of bitopCommand handles: whole rounds of four     *)
(* words of the shortest string, a missing key being empty.                  *)
FastBytes(lens) ==
  LET chunk == 4 * WordBytes IN chunk * (Min(lens) \div chunk)

ByteOp(op, a, b) ==
  CASE op = "and" -> a & b [] op = "or" -> a | b [] op = "xor" -> a ^^ b

BitOp(op, dst, srcs) ==
  LET src == [i \in DOMAIN srcs |-> BytesOf(bits[srcs[i]])]
      lens == {Len(src[i]) : i \in DOMAIN src}
      byte(i, j) == IF j <= Len(src[i]) THEN src[i][j] ELSE 0
      first(j) == IF op = "not" THEN 255 - byte(1, j) ELSE byte(1, j)
      \* the word loop reads every source without looking at its length
      fast(j) == FoldLeft(LAMBDA v, i : ByteOp(op, v, src[i][j]), first(j),
                          [i \in 1..(Len(srcs) - 1) |-> i + 1])
      slow(j) == FoldLeft(LAMBDA v, i : ByteOp(op, v, byte(i, j)), first(j),
                          [i \in 1..(Len(srcs) - 1) |-> i + 1])
      res == [j \in 1..Max(lens) |-> IF j <= FastBytes(lens) THEN fast(j) ELSE slow(j)]
      refs == [i \in DOMAIN srcs |-> bref[srcs[i]].ones]
      ones == {p \in 0..(8 * Max(lens) - 1) :
                 LET has == {i \in DOMAIN srcs : p \in refs[i]}
                 IN  CASE op = "and" -> has = DOMAIN srcs
                       [] op = "or" -> has # {}
                       [] op = "xor" -> Cardinality(has) % 2 = 1
                       [] op = "not" -> has = {}}
  IN  /\ op = "not" => Len(srcs) = 1
      /\ bits' = [bits EXCEPT ![dst] = IF Max(lens) = 0 THEN NoStr ELSE res]
      /\ bref' = [bref EXCEPT ![dst] = [len |-> Max(lens), ones |-> ones]]
      /\ bout' = [got |-> <<Max(lens)>>,
                  want |-> <<Max({bref[srcs[i]].len : i \in DOMAIN srcs})>>]

(* What a BITFIELD SET or INCRBY does: its reply and the value to write.     *)
BitfieldWrite(op, old) ==
  LET v == IF op.code = "incrby" THEN old
           ELSE IF op.sign THEN op.value ELSE Unsigned(op.value)
      incr == IF op.code = "incrby" THEN op.value ELSE 0
      check == IF op.sign THEN CheckSignedBitfieldOverflow(v, incr, op.bits, op.ow)
               ELSE CheckUnsignedBitfieldOverflow(v, incr, op.bits, op.ow)
      new == IF check[1] # 0 THEN check[2] ELSE v + incr
  IN  IF check[1] # 0 /\ op.ow = "fail" THEN <<NoStr, old>>
      ELSE <<IF op.code = "incrby" THEN new ELSE old, new>>

(* The value the field should end with: the sum, brought into range.         *)
RefWrite(op, old) ==
  LET v == IF op.code = "incrby" THEN old + op.value
           ELSE IF op.sign THEN op.value ELSE Unsigned(op.value)
      min == IF op.sign THEN -2^(op.bits - 1) ELSE 0
      max == min + 2^op.bits - 1
      wrapped == min + ((v - min) % 2^op.bits)
      new == CASE v \in min..max -> v
               [] op.ow = "wrap" -> wrapped
               [] op.ow = "sat" -> IF v > max THEN max ELSE min
               [] OTHER -> NoStr
  IN  IF new = NoStr THEN <<NoStr, old>>
      ELSE <<IF op.code = "incrby" THEN new ELSE old, new>>

Bitfield(k, op) ==
  LET top == op.offset + op.bits - 1
      s == LookupStringForBitCommand(k, top)
      old == IF op.sign THEN GetSignedBitfield(s, op.offset, op.bits)
             ELSE GetUnsignedBitfield(s, op.offset, op.bits)
      new == BitfieldWrite(op, old)
      r == RefGrown(k, top)
      ref == RefWrite(op, RefGet(r, op.offset, op.bits, op.sign))
  IN  /\ bits' = [bits EXCEPT ![k] =
                    IF new[1] = NoStr THEN s
                    ELSE SetUnsignedBitfield(s, op.offset, op.bits, new[2])]
      /\ bref' = [bref EXCEPT ![k] = RefPut(r, op.offset, op.bits, ref[2])]
      /\ bout' = [got |-> <<new[1]>>, want |-> <<ref[1]>>]

(* The types BITFIELD accepts: i1 to i64, u1 to u63.                         *)
BitfieldOps(values) ==
  {op \in [code : {"set", "incrby"}, offset : BOffsets, bits : {1, W - 5, W - 1, W},
           sign : BOOLEAN, ow : {"wrap", "sat", "fail"}, value : values] :
     ~op.sign => op.bits < W}

BNext ==
  /\ bsteps < BSteps
  /\ bsteps' = bsteps + 1
  /\ \E k \in BKey :
       \/ \E o \in BOffsets, on \in 0..1 : SetBit(k, o, on)
       \/ \E n \in BFills : Fill(k, n)
       \/ \E op \in {"and", "or", "xor", "not"}, srcs \in SeqOf(BKey, 2) :
            srcs # <<>> /\ BitOp(op, k, srcs)
       \/ \E op \in BitfieldOps(BValues) : Bitfield(k, op)

BSpec == BInit /\ [][BNext]_bvars

-----------------------------------------------------------------------------
(* Properties                                                                *)

(* The bytes hold the bits of the reference, and every reply is the one it   *)
(* expects: BITOP's word loop gives the bytes the byte loop would, BITFIELD  *)
(* reads and writes only its field, and overflow is detected and resolved at *)
(* every width as WRAP, SAT and FAIL say.                                    *)
BitsExact ==
  /\ \A k \in BKey : LET s == BytesOf(bits[k]) IN
       /\ Len(s) = bref[k].len
       /\ {p \in 0..(8 * Len(s) - 1) : BitOf(s, p) = 1} = bref[k].ones
  /\ bout.got = bout.want

InRange(k, start, end) ==
  LET r == ClampRange(start, end, bref[k].len) IN (8 * r[1])..(8 * r[2] + 7)

(* BITCOUNT and BITPOS, whatever the range and the alignment of the string   *)
(* in memory, find what a bit by bit search of the range finds; without an   *)
(* end BITPOS takes the string to be followed by zeros.                      *)
BitQueries ==
  bsteps > 0 => \A k \in BKey, start \in BRanges, end \in BRanges, align \in 0..3 :
    LET range == InRange(k, start, end)
        ones == bref[k].ones
        zeros == range \ ones
        open == InRange(k, start, bref[k].len - 1)
    IN  /\ (start < 0 /\ end < 0 => start <= end) =>
             BitCount(k, start, end, align) = Cardinality(range \cap ones)
        /\ bits[k] # NoStr =>
             /\ BitPos(k, 1, start, end, align)
                  = (IF range \cap ones = {} THEN -1 ELSE Min(range \cap ones))
             /\ BitPos(k, 0, start, end, align)
                  = (IF zeros = {} THEN -1 ELSE Min(zeros))
             /\ BitPos(k, 0, start, NoStr, align)
                  = (IF open = {} THEN -1
                     ELSE IF open \subseteq ones THEN 8 * bref[k].len
                     ELSE Min(open \ ones))

(* BITFIELD GET returns the field, also where it reaches past the end.       *)
BitfieldReads ==
  bsteps > 0 => \A k \in BKey, o \in BOffsets, n \in 1..W, sign \in BOOLEAN :
    n < W \/ sign =>
      BitfieldGet(BytesOf(bits[k]), o, n, sign) = RefGet(bref[k], o, n, sign)

=============================================================================

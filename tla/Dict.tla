-------------------------------- MODULE Dict --------------------------------
(***************************************************************************)
(* The incrementally rehashed hash table of dict.c.  A dictionary has two  *)
(* tables; while rehashidx is not -1 every lookup moves one bucket from    *)
(* the first to the second.  Cursor scans (SCAN) and safe iterators run    *)
(* between additions, deletions, expansions, shrinks and rehash steps.     *)
(*                                                                         *)
(* A table is a function from bucket numbers to chains, a chain the        *)
(* sequence of its keys with the newest first.  Values are left out:       *)
(* dictReplace and dictAddOrFind differ from dictAdd in the value only.    *)
(* Allocation never fails (zmalloc aborts the process).                    *)
(***************************************************************************)
EXTENDS Integers, Sequences, FiniteSets, FiniteSetsExt, SequencesExt

CONSTANTS DictKey,      \* the keys used
          HashOf,       \* DictKey -> Nat, the siphash value of each key
          InitialSize,  \* DICT_HT_INITIAL_SIZE
          EmptyVisits,  \* empty buckets one rehash step may skip (10)
          ForceRatio,   \* dict_force_resize_ratio
          MinFill,      \* HASHTABLE_MIN_FILL, in percent
          DictStart,    \* key sequences added before the behaviours start
          MaxChurn,     \* bound: updates after that
          NoKey         \* the NULL entry

VARIABLES d,            \* the dict
          scan,         \* one SCAN in progress: cursor, keys owed, keys seen
          iter,         \* one safe iterator
          held,         \* ghost: the keys the callers added and not deleted
          churn         \* updates so far

dictVars == <<d, scan, iter, held, churn>>

EmptyTable == [size |-> 0, used |-> 0, table |-> <<>>]

TableOf(size) == [size |-> size, used |-> 0, table |-> [b \in 0..(size - 1) |-> <<>>]]

EmptyDict == [ht |-> <<EmptyTable, EmptyTable>>, rehashidx |-> -1,
              iterators |-> 0, canResize |-> TRUE]

IsRehashing(dd) == dd.rehashidx # -1

DictSize(dd) == dd.ht[1].used + dd.ht[2].used

Chain(dd, t, b) == dd.ht[t].table[b]

Bucket(dd, t, k) == HashOf[k] % dd.ht[t].size

KeysIn(dd, t) == UNION {ToSet(Chain(dd, t, b)) : b \in 0..(dd.ht[t].size - 1)}

-----------------------------------------------------------------------------
(* Expansion.                                                              *)

\* The first power-of-two multiple of the initial size that is not smaller.
NextPower(size) ==
  CHOOSE p \in {InitialSize * 2^i : i \in 0..8} :
    /\ p >= size
    /\ p = InitialSize \/ p \div 2 < size

\* dictExpand: the first table of an empty dict, else the target of a rehash.
Expand(dd, size) ==
  LET real == NextPower(size) IN
  IF IsRehashing(dd) \/ dd.ht[1].used > size \/ real = dd.ht[1].size THEN dd
  ELSE IF dd.ht[1].size = 0 THEN [dd EXCEPT !.ht[1] = TableOf(real)]
  ELSE [dd EXCEPT !.ht[2] = TableOf(real), !.rehashidx = 0]

ExpandIfNeeded(dd) ==
  IF IsRehashing(dd) THEN dd
  ELSE IF dd.ht[1].size = 0 THEN Expand(dd, InitialSize)
  ELSE IF /\ dd.ht[1].used >= dd.ht[1].size
          /\ dd.canResize \/ dd.ht[1].used \div dd.ht[1].size > ForceRatio
       THEN Expand(dd, dd.ht[1].used * 2)
       ELSE dd

\* Shrink to the smallest table that holds the entries.
Resize(dd) ==
  IF ~dd.canResize \/ IsRehashing(dd) THEN dd
  ELSE Expand(dd, Max({dd.ht[1].used, InitialSize}))

\* htNeedsResize, the condition under which callers shrink a dict.
NeedsResize(dd) ==
  LET size == dd.ht[1].size + dd.ht[2].size
  IN  size > InitialSize /\ (DictSize(dd) * 100) \div size < MinFill

-----------------------------------------------------------------------------
(* Rehashing.                                                              *)

\* Buckets of the first table from rehashidx on that hold entries.
Filled(dd) == {b \in dd.rehashidx..(dd.ht[1].size - 1) : Chain(dd, 1, b) # <<>>}

\* Mutant: entries keep the bucket number of the first table.
MoveBucket_SameIndex(dd, b) ==
  [dd EXCEPT !.ht[2].table[b % dd.ht[2].size] = Chain(dd, 1, b) \o @,
             !.ht[1].table[b] = <<>>,
             !.ht[1].used = @ - Len(Chain(dd, 1, b)),
             !.ht[2].used = @ + Len(Chain(dd, 1, b)),
             !.rehashidx = b + 1]

\* One bucket moved: each entry goes to the head of its chain in the second.
MoveBucket(dd, b) ==
  LET Put(tbl, k) == [tbl EXCEPT ![HashOf[k] % dd.ht[2].size] = <<k>> \o @]
      chain == Chain(dd, 1, b)
  IN  [dd EXCEPT !.ht[2].table = FoldLeft(Put, dd.ht[2].table, chain),
                 !.ht[1].table[b] = <<>>,
                 !.ht[1].used = @ - Len(chain),
                 !.ht[2].used = @ + Len(chain),
                 !.rehashidx = b + 1]

FinishRehash(dd) ==
  IF dd.ht[1].used = 0
  THEN [dd EXCEPT !.ht = <<dd.ht[2], EmptyTable>>, !.rehashidx = -1]
  ELSE dd

\* dictRehash(d, 1): skip at most EmptyVisits empty buckets, move one.
Rehash(dd) ==
  IF ~IsRehashing(dd) THEN dd
  ELSE IF dd.ht[1].used = 0 THEN FinishRehash(dd)
  ELSE LET b == Min(Filled(dd)) IN
       IF b - dd.rehashidx >= EmptyVisits
       THEN [dd EXCEPT !.rehashidx = @ + EmptyVisits]
       ELSE FinishRehash(MoveBucket(dd, b))

\* _dictRehashStep: no bucket moves while a safe iterator is live.
RehashStep(dd) == IF dd.iterators = 0 THEN Rehash(dd) ELSE dd

-----------------------------------------------------------------------------
(* Lookups and updates.                                                    *)

\* Whether the two probes of dictFind meet the key.
Found(dd, k) ==
  /\ DictSize(dd) > 0
  /\ \/ dd.ht[1].size > 0 /\ Contains(Chain(dd, 1, Bucket(dd, 1, k)), k)
     \/ IsRehashing(dd) /\ Contains(Chain(dd, 2, Bucket(dd, 2, k)), k)

Find(dd, k) == IF DictSize(dd) = 0 THEN dd ELSE RehashStep(dd)

\* dictAddRaw: new entries go to the second table while rehashing.
AddRaw(dd, k) ==
  LET d1 == ExpandIfNeeded(RehashStep(dd))
      t  == IF IsRehashing(d1) THEN 2 ELSE 1
  IN  IF Found(d1, k) THEN d1
      ELSE [d1 EXCEPT !.ht[t].table[Bucket(d1, t, k)] = <<k>> \o @,
                      !.ht[t].used = @ + 1]

\* dictGenericDelete: the first table, then the second while rehashing.
GenericDelete(dd, k) ==
  IF DictSize(dd) = 0 THEN dd
  ELSE LET d1 == RehashStep(dd)
           t  == IF Contains(Chain(d1, 1, Bucket(d1, 1, k)), k) THEN 1 ELSE 2
       IN  IF ~Found(d1, k) THEN d1
           ELSE [d1 EXCEPT !.ht[t].table[Bucket(d1, t, k)] = SelectSeq(@, LAMBDA x : x # k),
                           !.ht[t].used = @ - 1]

\* The entries dictGetRandomKey can draw after its rehash step.
RandomKeys(dd) ==
  IF IsRehashing(dd)
  THEN LET Slot(h) == IF h >= dd.ht[1].size THEN Chain(dd, 2, h - dd.ht[1].size)
                      ELSE Chain(dd, 1, h)
       IN  UNION {ToSet(Slot(h)) : h \in dd.rehashidx..(dd.ht[1].size + dd.ht[2].size - 1)}
  ELSE KeysIn(dd, 1)

-----------------------------------------------------------------------------
(* The cursor scan.                                                        *)

\* The low n bits of v in reverse order.
Rev(v, n) == MapThenSumSet(LAMBDA i : ((v \div 2^i) % 2) * 2^(n - 1 - i), 0..(n - 1))

Log2(size) == CHOOSE n \in 0..16 : 2^n = size

\* The cursor of the next call: one added to the reversed masked bits.
Advance(v, size) ==
  LET n == Log2(size) IN Rev((Rev(v % size, n) + 1) % size, n)

\* Mutant: only the bucket with the cursor's own index is visited.
Expansions_One(v, small, large) == {v % large}

\* The buckets of the larger table visited with bucket v of the smaller one.
Expansions(v, small, large) ==
  {(v % small) + u * small : u \in ((v % large) \div small)..(large \div small - 1)}

\* dictScan: the keys emitted and the next cursor.
Scan(dd, v) ==
  IF DictSize(dd) = 0 THEN [out |-> {}, next |-> 0]
  ELSE IF ~IsRehashing(dd)
  THEN [out |-> ToSet(Chain(dd, 1, v % dd.ht[1].size)), next |-> Advance(v, dd.ht[1].size)]
  ELSE LET s == IF dd.ht[1].size > dd.ht[2].size THEN 2 ELSE 1
           l == 3 - s
           small == dd.ht[s].size
           large == dd.ht[l].size
       IN  [out  |-> ToSet(Chain(dd, s, v % small))
                       \cup UNION {ToSet(Chain(dd, l, b)) : b \in Expansions(v, small, large)},
            next |-> Advance(v, small)]

-----------------------------------------------------------------------------
(* The safe iterator.                                                      *)

\* The entry after k in its chain, NoKey at the end of the chain.
After(dd, t, k) ==
  LET c == Chain(dd, t, Bucket(dd, t, k))
      i == CHOOSE j \in 1..Len(c) : c[j] = k
  IN  IF i < Len(c) THEN c[i + 1] ELSE NoKey

\* Where dictNext goes from an exhausted chain: the next bucket that is not
\* empty, the second table after the first while rehashing, or the end.
NextBucket(dd, t, b) ==
  LET here == {c \in (b + 1)..(dd.ht[t].size - 1) : Chain(dd, t, c) # <<>>}
      over == {c \in 0..(dd.ht[2].size - 1) : Chain(dd, 2, c) # <<>>}
  IN  IF here # {} THEN <<t, Min(here)>>
      ELSE IF t = 1 /\ IsRehashing(dd) /\ over # {} THEN <<2, Min(over)>>
      ELSE <<0, 0>>

\* dictNext: the position after the call; state "end" when it returned NULL.
Next1(dd, it) ==
  LET pos == IF it.nextEntry # NoKey THEN <<it.table, it.index>>
             ELSE NextBucket(dd, it.table, it.index)
      e   == IF it.nextEntry # NoKey THEN it.nextEntry
             ELSE Head(Chain(dd, pos[1], pos[2]))
  IN  IF pos[1] = 0 THEN [it EXCEPT !.state = "end"]
      ELSE [it EXCEPT !.table = pos[1], !.index = pos[2], !.entry = e,
                      !.nextEntry = After(dd, pos[1], e),
                      !.twice = @ \/ (e \in it.seen /\ e \in it.owed),
                      !.seen = @ \cup {e}, !.state = "live"]

NoIter == [state |-> "none", table |-> 1, index |-> -1, entry |-> NoKey,
           nextEntry |-> NoKey, seen |-> {}, owed |-> {}, twice |-> FALSE]

NoScan == [state |-> "none", cursor |-> 0, owed |-> {}, seen |-> {}, shrunk |-> FALSE]

\* A rehash into a smaller table is in progress.
Shrinking(dd) == IsRehashing(dd) /\ dd.ht[2].size < dd.ht[1].size

-----------------------------------------------------------------------------
(* Actions.                                                                *)

DictInit ==
  /\ \E ks \in DictStart :
       /\ d = FoldLeft(AddRaw, EmptyDict, ks)
       /\ held = ToSet(ks)
  /\ scan = NoScan
  /\ iter = NoIter
  /\ churn = 0

\* dictAdd, dictReplace, dictAddOrFind.
DictAdd(k) ==
  /\ churn < MaxChurn
  /\ d' = AddRaw(d, k)
  /\ held' = held \cup {k}
  /\ churn' = churn + 1
  /\ UNCHANGED <<scan, iter>>

\* dictDelete, dictUnlink.  Under a live iterator callers delete only the
\* entry it has just returned.
DictDelete(k) ==
  /\ churn < MaxChurn
  /\ iter.state = "live" => k = iter.entry
  /\ d' = GenericDelete(d, k)
  /\ held' = held \ {k}
  /\ scan' = [scan EXCEPT !.owed = @ \ {k}]
  /\ iter' = [iter EXCEPT !.owed = @ \ {k}]
  /\ churn' = churn + 1

\* A lookup, whose only effect is its rehash step.
DictFind ==
  /\ d' = RehashStep(d)
  /\ DictSize(d) > 0
  /\ UNCHANGED <<scan, iter, held, churn>>

\* incrementallyRehash, from databasesCron: no iterator outlives a command.
DictRehashMilliseconds ==
  /\ iter.state = "none"
  /\ d' = Rehash(d)
  /\ UNCHANGED <<scan, iter, held, churn>>

\* tryResizeHashTables, from databasesCron.
DictResize ==
  /\ iter.state = "none"
  /\ NeedsResize(d)
  /\ d' = Resize(d)
  /\ UNCHANGED <<scan, iter, held, churn>>

\* updateDictResizePolicy: off while a child saves, on again afterwards.
DictResizePolicy ==
  /\ iter.state = "none"
  /\ churn < MaxChurn
  /\ d' = [d EXCEPT !.canResize = ~@]
  /\ churn' = churn + 1
  /\ UNCHANGED <<scan, iter, held>>

\* dictEmpty (FLUSHDB).
DictEmpty ==
  /\ iter.state = "none"
  /\ churn < MaxChurn
  /\ DictSize(d) > 0
  /\ d' = [EmptyDict EXCEPT !.canResize = d.canResize]
  /\ held' = {}
  /\ scan' = [scan EXCEPT !.owed = {}]
  /\ churn' = churn + 1
  /\ UNCHANGED iter

\* A client issues SCAN 0.
ScanBegin ==
  /\ scan.state = "none"
  /\ scan' = [NoScan EXCEPT !.state = "live", !.owed = held]
  /\ UNCHANGED <<d, iter, held, churn>>

\* One call of dictScan.
ScanStep ==
  /\ scan.state = "live"
  /\ iter.state = "none"
  /\ LET r == Scan(d, scan.cursor)
     IN  scan' = [scan EXCEPT !.cursor = r.next, !.seen = @ \cup r.out,
                              !.shrunk = @ \/ Shrinking(d),
                              !.state = IF r.next = 0 THEN "end" ELSE "live"]
  /\ UNCHANGED <<d, iter, held, churn>>

\* The first dictNext of a safe iterator.
IterBegin ==
  /\ iter.state = "none"
  /\ iter' = Next1(d, [NoIter EXCEPT !.owed = held])
  /\ d' = [d EXCEPT !.iterators = @ + 1]
  /\ UNCHANGED <<scan, held, churn>>

IterNext ==
  /\ iter.state = "live"
  /\ iter' = Next1(d, iter)
  /\ UNCHANGED <<d, scan, held, churn>>

\* dictReleaseIterator, after the end or when the caller stops early.
IterRelease ==
  /\ iter.state \in {"live", "end"}
  /\ iter' = NoIter
  /\ d' = [d EXCEPT !.iterators = @ - 1]
  /\ UNCHANGED <<scan, held, churn>>

DictNext ==
  \/ \E k \in DictKey : DictAdd(k) \/ DictDelete(k)
  \/ DictFind
  \/ DictRehashMilliseconds
  \/ DictResize
  \/ DictResizePolicy
  \/ DictEmpty
  \/ ScanBegin
  \/ ScanStep
  \/ IterBegin
  \/ IterNext
  \/ IterRelease

-----------------------------------------------------------------------------
(* Properties.                                                             *)

\* The two tables hold every key added and not deleted, once, in the bucket
\* both probes of dictFind look at; the counts are exact; the buckets a rehash
\* has passed are empty, which the assert of dictRehash and the draw of
\* dictGetRandomKey rely on.
DictExact ==
  /\ \A t \in 1..2 :
       d.ht[t].used = MapThenSumSet(LAMBDA b : Len(Chain(d, t, b)), 0..(d.ht[t].size - 1))
  /\ DictSize(d) = Cardinality(held)
  /\ \A k \in DictKey : Found(d, k) <=> k \in held
  /\ RandomKeys(d) = held
  /\ ~IsRehashing(d) => d.ht[2] = EmptyTable
  /\ IsRehashing(d) => d.rehashidx <= d.ht[1].size

\* dictScan "guarantees all elements present in the dictionary get returned
\* between the start and end of the iteration", whatever expansions, shrinks
\* and rehash steps happen between the calls.
ScanGuarantee == scan.state = "end" => scan.owed \subseteq scan.seen

\* The same for scans none of whose calls meets a dict that is being shrunk:
\* expansions in progress and finished, and finished shrinks, lose no key.
ScanComplete == ~scan.shrunk => ScanGuarantee

\* Safe iterator: an entry that is there for the whole iteration is returned,
\* and returned once, although additions and expansions happen meanwhile.
IterComplete ==
  /\ iter.state = "end" => iter.owed \subseteq iter.seen
  /\ ~iter.twice
=============================================================================

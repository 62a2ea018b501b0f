------------------------------- MODULE AdList -------------------------------
(***************************************************************************)
(* The doubly linked list of adlist.c, which holds clients, slaves,        *)
(* watched keys, pub/sub patterns and more.  Nodes are addresses with      *)
(* prev and next pointers, NoAddr is NULL.  An iterator remembers the node *)
(* it returns next; its contract lets the caller delete the node it has    *)
(* just been given, and no other.                                          *)
(***************************************************************************)
EXTENDS Integers, Sequences, FiniteSets, FiniteSetsExt, SequencesExt

CONSTANTS AdAddr,       \* addresses malloc may return: 1..n, lowest first
          NoAddr        \* NULL

VARIABLES ad,           \* [head, tail, len, prev, next]
          adref,        \* ghost: the addresses in list order
          adit          \* one iterator: next, direction, last returned, owed, seen

adVars == <<ad, adref, adit>>

EmptyList == [head |-> NoAddr, tail |-> NoAddr, len |-> 0,
              prev |-> [a \in AdAddr |-> NoAddr], next |-> [a \in AdAddr |-> NoAddr]]

\* p->f = v for a pointer that may be NULL.
SetIf(f, p, v) == IF p = NoAddr THEN f ELSE [f EXCEPT ![p] = v]

\* listInsertNode next to old; with old NULL, listAddNodeHead and
\* listAddNodeTail on an empty list.
ListInsert(l, a, old, after) ==
  LET p == IF old = NoAddr THEN NoAddr ELSE IF after THEN old ELSE l.prev[old]
      n == IF old = NoAddr THEN NoAddr ELSE IF after THEN l.next[old] ELSE old
  IN  [head |-> IF p = NoAddr THEN a ELSE l.head,
       tail |-> IF n = NoAddr THEN a ELSE l.tail,
       len  |-> l.len + 1,
       prev |-> SetIf([l.prev EXCEPT ![a] = p], n, a),
       next |-> SetIf([l.next EXCEPT ![a] = n], p, a)]

ListDelNode(l, a) ==
  LET p == l.prev[a]
      n == l.next[a]
  IN  [head |-> IF p = NoAddr THEN n ELSE l.head,
       tail |-> IF n = NoAddr THEN p ELSE l.tail,
       len  |-> l.len - 1,
       prev |-> SetIf([l.prev EXCEPT ![a] = NoAddr], n, p),
       next |-> SetIf([l.next EXCEPT ![a] = NoAddr], p, n)]

ListRotate(l) ==
  LET t == l.tail
  IN  IF l.len <= 1 THEN l
      ELSE [l EXCEPT !.tail = l.prev[t], !.head = t,
                     !.next = [l.next EXCEPT ![l.prev[t]] = NoAddr, ![t] = l.head],
                     !.prev = [l.prev EXCEPT ![l.head] = t, ![t] = NoAddr]]

\* listNext.
Advanced(l, it) ==
  [it EXCEPT !.next = IF it.fwd THEN l.next[it.next] ELSE l.prev[it.next],
             !.last = it.next,
             !.seen = IF it.next \in it.owed THEN Append(@, it.next) ELSE @]

NoAdIter == [on |-> FALSE, fwd |-> TRUE, next |-> NoAddr, last |-> NoAddr,
             owed |-> {}, seen |-> <<>>]

-----------------------------------------------------------------------------

AdInit == ad = EmptyList /\ adref = <<>> /\ adit = NoAdIter

Unused == Min(AdAddr \ ToSet(adref))

\* A new node before or after position i, at an end, or in an empty list.
AdInsert(i, after) ==
  /\ AdAddr \ ToSet(adref) # {}
  /\ i \in DOMAIN adref \/ (adref = <<>> /\ i = 1)
  /\ ad' = ListInsert(ad, Unused, IF adref = <<>> THEN NoAddr ELSE adref[i], after)
  /\ adref' = InsertAt(adref, IF after /\ adref # <<>> THEN i + 1 ELSE i, Unused)
  /\ UNCHANGED adit

AdDelete(a) ==
  /\ Contains(adref, a)
  /\ adit.on => a = adit.last
  /\ ad' = ListDelNode(ad, a)
  /\ adref' = SelectSeq(adref, LAMBDA x : x # a)
  /\ adit' = [adit EXCEPT !.owed = @ \ {a},
                          !.seen = SelectSeq(@, LAMBDA x : x # a), !.last = IF a = @ THEN NoAddr ELSE @]

AdRotate ==
  /\ ~adit.on
  /\ ad' = ListRotate(ad)
  /\ adref' = IF adref = <<>> THEN <<>> ELSE <<Last(adref)>> \o Front(adref)
  /\ UNCHANGED adit

\* listRewind and listRewindTail.
AdRewind(fwd) ==
  /\ ~adit.on /\ adref # <<>>
  /\ adit' = [NoAdIter EXCEPT !.on = TRUE, !.fwd = fwd, !.owed = ToSet(adref),
                              !.next = IF fwd THEN ad.head ELSE ad.tail]
  /\ UNCHANGED <<ad, adref>>

AdNextNode ==
  /\ adit.on /\ adit.next # NoAddr
  /\ adit' = Advanced(ad, adit)
  /\ UNCHANGED <<ad, adref>>

AdStop ==
  /\ adit.on /\ adit.next = NoAddr
  /\ adit' = NoAdIter
  /\ UNCHANGED <<ad, adref>>

AdNext ==
  \/ \E i \in 1..Cardinality(AdAddr), b \in BOOLEAN : AdInsert(i, b)
  \/ \E a \in AdAddr : AdDelete(a)
  \/ AdRotate
  \/ \E b \in BOOLEAN : AdRewind(b)
  \/ AdNextNode
  \/ AdStop

\* Following next from the head and prev from the tail both give the list, and
\* an iteration under which nodes are inserted and the returned node deleted
\* meets every node that stays, once.
AdExact ==
  LET n == Len(adref)
  IN  /\ ad.len = n
      /\ ad.head = (IF n = 0 THEN NoAddr ELSE adref[1])
      /\ ad.tail = (IF n = 0 THEN NoAddr ELSE adref[n])
      /\ \A i \in 1..n : /\ ad.next[adref[i]] = IF i = n THEN NoAddr ELSE adref[i + 1]
                         /\ ad.prev[adref[i]] = IF i = 1 THEN NoAddr ELSE adref[i - 1]
      /\ adit.on /\ adit.next = NoAddr =>
           \A a \in adit.owed : Cardinality({i \in DOMAIN adit.seen : adit.seen[i] = a}) = 1
=============================================================================

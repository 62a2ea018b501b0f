---------------------------- MODULE ClusterProofs ----------------------------
(***************************************************************************)
(* A master of a Redis Cluster votes for one slave per epoch               *)
(* (clusterSendFailoverAuthIfNeeded in cluster.c), for every set of nodes, *)
(* every scenario and every bound of ClusterFailover.                      *)
(*                                                                         *)
(* The property is not inductive: it follows from VoteInv, by which        *)
(* lastVoteEpoch is no earlier than any vote the node has sent, and no     *)
(* later than its currentEpoch.  Most of the proof shows that nothing else *)
(* a node does disturbs that.  Quiet(r, q) says that a part of a handler   *)
(* went from the result r to the result q without a vote; the lemmas named *)
(* Quiet... show it for each operation of cluster.c, and compose.  Outcome *)
(* then says what a whole handler may do, VoteCommit that this keeps       *)
(* VoteInv.                                                                *)
(***************************************************************************)
EXTENDS ClusterFailover, FiniteSetTheorems, TLAPS

\* A finite set of naturals has a greatest element.
LEMMA FiniteMax ==
  ASSUME NEW S \in SUBSET Nat, IsFiniteSet(S), S # {}
  PROVE  Max(S) \in S /\ \A y \in S : Max(S) >= y
<1> DEFINE Top(U) == \E x \in U : \A y \in U : x >= y
           Bad == {k \in Nat : \E U \in SUBSET S : U # {} /\ Cardinality(U) = k /\ ~Top(U)}
<1>1. Bad = {}
  <2> SUFFICES ASSUME Bad # {} PROVE FALSE
    OBVIOUS
  <2>1. PICK k \in Bad : \A l \in Bad : ~(<<l, k>> \in OpToRel(<, Nat))
    BY ZenonT(60), NatLessThanWellFounded, WFMin
  <2>2. \A l \in Bad : ~(l < k)
    BY ZenonT(60), <2>1 DEF OpToRel
  <2>3. PICK U \in SUBSET S : U # {} /\ Cardinality(U) = k /\ ~Top(U)
    BY ZenonT(60), <2>1
  <2>4. PICK u : u \in U
    BY <2>3
  <2> DEFINE W == U \ {u}
  <2>5. IsFiniteSet(U) /\ Cardinality(W) = k - 1 /\ W \in SUBSET S /\ IsFiniteSet(W)
    BY ZenonT(60), <2>3, <2>4, FS_Subset, FS_RemoveElement
  <2>6. Cardinality(W) \in Nat /\ k \in Nat
    BY ZenonT(60), <2>1, <2>5, FS_CardinalityType
  <2>7. CASE W = {}
    <3>1. U = {u} /\ u \in Nat
      BY ZenonT(60), <2>4, <2>7
    <3> QED
      BY <2>3, <3>1
  <2>8. CASE W # {}
    <3>1. Top(W)
      <4>1. k - 1 \notin Bad
        BY <2>2, <2>5, <2>6
      <4> QED
        BY ZenonT(60), <2>5, <2>6, <2>8, <4>1
    <3>2. PICK x \in W : \A y \in W : x >= y
      BY <3>1
    <3>3. U = W \cup {u} /\ x \in Nat /\ u \in Nat
      BY <2>4
    <3>4. CASE x >= u
      BY <2>3, <3>2, <3>3, <3>4
    <3>5. CASE u >= x
      <4>1. \A y \in W : y \in Nat /\ u >= y
        BY <3>2, <3>3, <3>5
      <4> QED
        BY <2>3, <3>3, <4>1
    <3> QED
      BY <3>3, <3>4, <3>5
  <2> QED
    BY <2>7, <2>8
<1>2. Top(S)
  BY <1>1, FS_CardinalityType
<1> QED
  BY ZenonT(60), <1>2 DEF Max

\* The greater of two naturals.
LEMMA MaxOfTwo ==
  ASSUME NEW a \in Nat, NEW b \in Nat
  PROVE  Max({a, b}) \in Nat /\ Max({a, b}) >= a /\ Max({a, b}) >= b
<1>1. \E x \in {a, b} : \A y \in {a, b} : x >= y
  OBVIOUS
<1>2. Max({a, b}) \in {a, b} /\ \A y \in {a, b} : Max({a, b}) >= y
  BY <1>1 DEF Max
<1> QED
  BY <1>2

-----------------------------------------------------------------------------
\* The fields of a node's state and of a handler's result.
StFields == {"cur", "lastVote", "view", "slots", "size", "ok", "off", "boots", "auth", "mf"}
Fields == {"s", "out", "todo", "won"}

\* A node's epochs are numbers, and it voted in no epoch it has not reached.
EpochsOK(st) ==
  DOMAIN st = StFields /\ st.cur \in Nat /\ st.lastVote \in Nat /\ st.lastVote <= st.cur

\* t comes from st without a vote: the epoch only grows.
NoVote(st, t) == EpochsOK(t) /\ t.cur >= st.cur /\ t.lastVote = st.lastVote

\* A packet that carries an epoch and is not a vote.
Plain(p) == p.hdr.cur \in Nat /\ p.type # "AUTH_ACK"

\* The result of a handler: a record with a node's state in it.
ResultOK(r) == DOMAIN r = Fields /\ EpochsOK(r.s)

\* The handler went from r to q without a vote.
Quiet(r, q) ==
  /\ DOMAIN q = Fields /\ NoVote(r.s, q.s)
  /\ \A p \in q.out : p \in r.out \/ Plain(p)

\* Steps without a vote compose.
LEMMA NoVoteTrans ==
  ASSUME NEW a, NEW b, NEW c, EpochsOK(a), NoVote(a, b), NoVote(b, c)
  PROVE  NoVote(a, c)
BY DEF NoVote, EpochsOK

\* Parts of a handler that do not vote compose.
LEMMA QuietTrans ==
  ASSUME NEW a, NEW b, NEW c, ResultOK(a), Quiet(a, b), Quiet(b, c)
  PROVE  Quiet(a, c) /\ ResultOK(b) /\ ResultOK(c)
<1>1. NoVote(a.s, c.s)
  BY NoVoteTrans DEF Quiet, ResultOK
<1> QED
  BY <1>1 DEF Quiet, ResultOK, NoVote

\* A handler that returns at once did not vote.
LEMMA QuietSame ==
  ASSUME NEW r, ResultOK(r)
  PROVE  Quiet(r, r) /\ NoVote(r.s, r.s)
BY DEF Quiet, ResultOK, NoVote, EpochsOK

\* A result whose state moved without a vote, whatever was recorded to do.
LEMMA QuietState ==
  ASSUME NEW r, ResultOK(r), NEW t, NoVote(r.s, t), NEW f
  PROVE  /\ Quiet(r, [r EXCEPT !.s = t])
         /\ Quiet(r, Todo(r, f))
         /\ Quiet(r, Todo([r EXCEPT !.s = t], f))
BY DEF Quiet, ResultOK, NoVote, Todo, Fields, EpochsOK

\* A state that differs in other fields only.
LEMMA OtherFields ==
  ASSUME NEW st, EpochsOK(st), NEW t, DOMAIN t = StFields, t.cur = st.cur, t.lastVote = st.lastVote
  PROVE  NoVote(st, t)
BY DEF NoVote, EpochsOK

\* clusterUpdateState(), resetManualFailover(), clusterNodeRemoveSlave(),
\* clusterNodeAddSlave(), clusterAddSlot(), clusterHandleManualFailover() and
\* manualFailoverCheckTimeout() leave the epochs alone.
LEMMA NoVoteState ==
  ASSUME NEW st, EpochsOK(st), NEW n, NEW x, NEW m, NEW ss, NEW delay
  PROVE  /\ NoVote(st, st)
         /\ NoVote(st, UpdateState(n, st, delay))
         /\ NoVote(st, ResetManualFailover(st))
         /\ NoVote(st, RemoveSlave(st, x))
         /\ NoVote(st, AddSlave(st, x, m))
         /\ NoVote(st, GiveSlots(st, ss, x))
         /\ NoVote(st, HandleManualFailover(st))
         /\ NoVote(st, ManualFailoverCheckTimeout(st))
<1>1. NoVote(st, st)
  BY DEF NoVote, EpochsOK
<1>2. NoVote(st, UpdateState(n, st, delay))
  BY DEF UpdateState, NoVote, EpochsOK, StFields
<1>3. NoVote(st, ResetManualFailover(st))
  BY DEF ResetManualFailover, NoVote, EpochsOK, StFields
<1>4. NoVote(st, RemoveSlave(st, x))
  BY DEF RemoveSlave, NoVote, EpochsOK, StFields
<1>5. NoVote(st, AddSlave(st, x, m))
  BY DEF AddSlave, NoVote, EpochsOK, StFields
<1>6. NoVote(st, GiveSlots(st, ss, x))
  BY DEF GiveSlots, NoVote, EpochsOK, StFields
<1>7. NoVote(st, HandleManualFailover(st))
  BY <1>1 DEF HandleManualFailover, NoVote, EpochsOK, StFields
<1>8. NoVote(st, ManualFailoverCheckTimeout(st))
  BY <1>1, <1>3 DEF ManualFailoverCheckTimeout
<1> QED
  BY <1>1, <1>2, <1>3, <1>4, <1>5, <1>6, <1>7, <1>8

\* clusterSetMaster() leaves the epochs alone.
LEMMA NoVoteSetMaster ==
  ASSUME NEW st, EpochsOK(st), NEW n, NEW m
  PROVE  NoVote(st, SetMaster(n, st, m))
<1> DEFINE a == IF IsMaster(st, n)
                THEN [st EXCEPT !.view[n].role = "slave", !.view[n].migrate_to = FALSE] ELSE st
           b == RemoveSlave(a, n)
           c == AddSlave(b, n, m)
           d == ResetManualFailover(c)
<1>1. NoVote(st, a)
  BY DEF NoVote, EpochsOK, StFields
<1> HIDE DEF a
<1>2. NoVote(a, b) /\ EpochsOK(a)
  BY <1>1, NoVoteState DEF NoVote
<1> HIDE DEF b
<1>3. NoVote(b, c) /\ EpochsOK(b)
  BY <1>2, NoVoteState DEF NoVote
<1> HIDE DEF c
<1>4. NoVote(c, d) /\ EpochsOK(c)
  BY <1>3, NoVoteState DEF NoVote
<1> HIDE DEF d
<1>5. NoVote(st, d)
  BY <1>1, <1>2, <1>3, <1>4, NoVoteTrans
<1> QED
  BY <1>5 DEF SetMaster, a, b, c, d

\* Packets carry the sender's epoch.
LEMMA PlainPacket ==
  ASSUME NEW n, NEW st, EpochsOK(st)
  PROVE  /\ BuildMessageHdr(n, st).cur = st.cur
         /\ \A x, type : type # "AUTH_ACK" =>
              Plain(Packet(n, st, x, type)) /\ Plain(PingPacket(n, st, x, type))
<1>1. BuildMessageHdr(n, st).cur = st.cur
  BY DEF BuildMessageHdr
<1> QED
  BY <1>1 DEF Packet, PingPacket, Plain, EpochsOK

\* Sending packets that are not votes.
LEMMA QuietOut ==
  ASSUME NEW r, ResultOK(r), NEW S, \A p \in S : Plain(p)
  PROVE  Quiet(r, [r EXCEPT !.out = @ \cup S])
BY DEF Quiet, ResultOK, NoVote, Fields, EpochsOK

\* clusterSendFail(), clusterSendUpdate(), clusterBroadcastPong() and the PONG that
\* answers a PING send no vote.
LEMMA QuietSend ==
  ASSUME NEW r, ResultOK(r), NEW n, NEW x, NEW X, NEW owner
  PROVE  /\ Quiet(r, SendFail(n, r, X))
         /\ Quiet(r, SendUpdate(n, r, x, owner))
         /\ Quiet(r, BroadcastPong(n, r, X))
         /\ Quiet(r, [r EXCEPT !.out = @ \cup {PingPacket(n, r.s, x, "PONG")}])
<1>0. EpochsOK(r.s)
  BY DEF ResultOK
<1>1. Quiet(r, SendFail(n, r, X))
  <2> DEFINE S == {[hdr |-> BuildMessageHdr(n, r.s), to |-> a[1], type |-> "FAIL",
                    about |-> a[2]] : a \in (Node \ {n}) \X X}
  <2>1. \A p \in S : Plain(p)
    BY <1>0, PlainPacket DEF Plain, EpochsOK
  <2> HIDE DEF S
  <2> QED
    BY ZenonT(60), <2>1, QuietOut DEF SendFail, S
<1>2. Quiet(r, SendUpdate(n, r, x, owner))
  <2> DEFINE S == {[hdr |-> BuildMessageHdr(n, r.s), to |-> x, type |-> "UPDATE",
                    about |-> owner, aepoch |-> r.s.view[owner].epoch,
                    aslots |-> SlotsOf(r.s, owner)]}
  <2>1. \A p \in S : Plain(p)
    BY <1>0, PlainPacket DEF Plain, EpochsOK
  <2> HIDE DEF S
  <2> QED
    BY ZenonT(60), <2>1, QuietOut DEF SendUpdate, S
<1>3. Quiet(r, BroadcastPong(n, r, X))
  <2> DEFINE S == {PingPacket(n, r.s, y, "PONG") : y \in X}
  <2>1. \A p \in S : Plain(p)
    BY <1>0, PlainPacket
  <2> HIDE DEF S
  <2> QED
    BY ZenonT(60), <2>1, QuietOut DEF BroadcastPong, S
<1>4. Quiet(r, [r EXCEPT !.out = @ \cup {PingPacket(n, r.s, x, "PONG")}])
  <2>0. Plain(PingPacket(n, r.s, x, "PONG"))
    BY <1>0, PlainPacket
  <2>1. \A p \in {PingPacket(n, r.s, x, "PONG")} : Plain(p)
    BY <2>0
  <2> QED
    BY ZenonT(60), <2>1, QuietOut
<1> QED
  BY <1>1, <1>2, <1>3, <1>4

\* clusterSetNodeAsMaster() casts no vote.
LEMMA QuietSetNodeAsMaster ==
  ASSUME NEW r, ResultOK(r), NEW n, NEW x
  PROVE  Quiet(r, SetNodeAsMaster(n, r, x))
<1> DEFINE a == RemoveSlave(r.s, x)
           b == [a EXCEPT !.view[x].role = "master",
                          !.view[x].migrate_to = @ \/ (r.s.view[x].slaveof # None /\ x # n)]
<1>1. NoVote(r.s, a)
  BY NoVoteState DEF ResultOK
<1> HIDE DEF a
<1>2. NoVote(a, b)
  BY <1>1 DEF NoVote, EpochsOK, StFields
<1>3. NoVote(r.s, b)
  BY <1>1, <1>2, NoVoteTrans DEF ResultOK
<1> HIDE DEF b
<1>4. Quiet(r, Todo([r EXCEPT !.s = b], {"save", "update"})) /\ Quiet(r, r)
  BY <1>3, QuietState, QuietSame
<1> QED
  BY <1>4 DEF SetNodeAsMaster, a, b

\* clusterUpdateSlotsConfigWith() casts no vote.
LEMMA QuietUpdateSlots ==
  ASSUME NEW r, ResultOK(r), NEW n, NEW x, NEW epoch, NEW claimed
  PROVE  Quiet(r, UpdateSlotsConfigWith(n, r, x, epoch, claimed))
<1> DEFINE lost == {s \in claimed : /\ r.s.slots[s] # x
                                    /\ r.s.slots[s] = None \/ r.s.view[r.s.slots[s]].epoch < epoch}
           a == GiveSlots(r.s, lost, x)
           r1 == IF lost = {} THEN r ELSE Todo([r EXCEPT !.s = a], {"save", "update"})
           b == SetMaster(n, a, x)
           q == UpdateSlotsConfigWith(n, r, x, epoch, claimed)
           r2 == Todo([r1 EXCEPT !.s = b], {"save", "update"})
<1>1. q \in {r, r1, r2}
  BY ZenonT(60) DEF UpdateSlotsConfigWith
<1>2. NoVote(r.s, a) /\ EpochsOK(a)
  <2>1. EpochsOK(r.s)
    BY DEF ResultOK
  <2> HIDE DEF lost
  <2>2. NoVote(r.s, a)
    BY <2>1, NoVoteState
  <2> QED
    BY <2>2 DEF NoVote
<1> HIDE DEF a, lost
<1>3. Quiet(r, r1) /\ Quiet(r, r) /\ (r1.s = r.s \/ r1.s = a)
  BY ZenonT(60), <1>2, QuietState, QuietSame DEF ResultOK, Todo, Fields
<1>4. ResultOK(r1)
  BY <1>3, QuietTrans
<1> HIDE DEF r1
<1>5. NoVote(r.s, b) /\ NoVote(a, b)
  BY <1>2, NoVoteSetMaster, NoVoteTrans DEF ResultOK
<1>6. Quiet(r, r2)
  <2>1. NoVote(r1.s, b)
    BY <1>3, <1>5
  <2> HIDE DEF b
  <2>2. Quiet(r1, r2)
    BY <1>4, <2>1, QuietState
  <2> QED
    BY <1>3, <2>2, QuietTrans
<1> HIDE DEF q, r2
<1>7. Quiet(r, q)
  BY <1>1, <1>3, <1>6
<1> QED
  BY <1>7 DEF q

\* An epoch made without a vote, by clusterBumpConfigEpochWithoutConsensus() or
\* clusterHandleConfigEpochCollision(), is a later one.
LEMMA QuietEpochs ==
  ASSUME NEW r, ResultOK(r), NEW n, NEW x
  PROVE  /\ Quiet(r, BumpConfigEpochWithoutConsensus(n, r))
         /\ Quiet(r, HandleConfigEpochCollision(n, r, x))
<1> DEFINE q == Todo([r EXCEPT !.s.cur = @ + 1, !.s.view[n].epoch = r.s.cur + 1], {"save"})
<1>1. /\ DOMAIN q = Fields /\ DOMAIN q.s = StFields /\ q.s.cur = r.s.cur + 1
      /\ q.s.lastVote = r.s.lastVote /\ q.out = r.out
  BY ZenonT(60) DEF ResultOK, EpochsOK, Todo, Fields, StFields
<1> HIDE DEF q
<1>2. Quiet(r, q)
  BY <1>1 DEF Quiet, NoVote, ResultOK, EpochsOK
<1> QED
  BY <1>2, QuietSame DEF q, BumpConfigEpochWithoutConsensus, HandleConfigEpochCollision

\* clusterProcessGossipSection() casts no vote.
LEMMA QuietGossip ==
  ASSUME NEW r, ResultOK(r), NEW n, NEW sender, NEW bad
  PROVE  Quiet(r, ProcessGossipSection(n, r, sender, bad))
<1>1. ASSUME NEW q, ResultOK(q), NEW f
      PROVE  Quiet(q, [q EXCEPT !.s.view = f])
  BY <1>1 DEF Quiet, NoVote, ResultOK, EpochsOK, Fields, StFields
<1>2. ASSUME NEW q, ResultOK(q), NEW about
      PROVE  Quiet(q, GossipAbout(q, sender, about, bad))
  BY ZenonT(60), <1>1, <1>2 DEF GossipAbout
<1>3. ASSUME NEW q, ResultOK(q), NEW reported
      PROVE  Quiet(q, MarkNodeAsFailingIfNeeded(n, q, reported))
  <2> DEFINE failing == {x \in reported :
                           /\ q.s.view[x].flag = "pfail"
                           /\ Cardinality(q.s.view[x].reports) + (IF IsMaster(q.s, n) THEN 1 ELSE 0)
                                >= Quorum(q.s)}
             f == [x \in Node |-> IF x \in failing THEN [q.s.view[x] EXCEPT !.flag = "fail"]
                                  ELSE q.s.view[x]]
             a == [q EXCEPT !.s.view = f]
             b == Todo(a, {"save", "update"})
             c == SendFail(n, b, failing)
             m == MarkNodeAsFailingIfNeeded(n, q, reported)
  <2>1. m \in {q, b, c}
    BY DEF MarkNodeAsFailingIfNeeded
  <2> HIDE DEF f, failing
  <2>2. Quiet(q, a)
    BY <1>1, <1>3
  <2> HIDE DEF a
  <2>3. Quiet(a, b) /\ ResultOK(a)
    BY ZenonT(60), <1>3, <2>2, QuietTrans, QuietSame, QuietState
  <2> HIDE DEF b
  <2>4. Quiet(q, b) /\ ResultOK(b) /\ Quiet(q, q)
    BY <1>3, <2>2, <2>3, QuietTrans, QuietSame
  <2>5. Quiet(q, c)
    BY ZenonT(60), <1>3, <2>4, QuietSend, QuietTrans
  <2> HIDE DEF c, m
  <2> QED
    BY <2>1, <2>4, <2>5 DEF m
<1> DEFINE about == Node \ {n, sender}
           a == GossipAbout(r, sender, about, bad)
           b == MarkNodeAsFailingIfNeeded(n, a, about \cap bad)
<1>4. Quiet(r, a)
  BY <1>2
<1> HIDE DEF a
<1>5. ResultOK(a)
  BY <1>4, QuietTrans, QuietSame
<1>6. Quiet(r, b)
  BY <1>3, <1>4, <1>5, QuietTrans
<1> QED
  BY <1>6, QuietSame DEF ProcessGossipSection, a

\* The header of a packet only moves currentEpoch forward.
LEMMA QuietHeader ==
  ASSUME NEW r, ResultOK(r), NEW n, NEW h, h.cur \in Nat
  PROVE  Quiet(r, ProcessHeader(n, r, h))
<1> DEFINE c == Max({r.s.cur, h.cur})
           a == [r.s EXCEPT !.cur = c, !.view[h.from].epoch = Max({@, h.cfg})]
           r1 == IF h.cfg > r.s.view[h.from].epoch THEN Todo([r EXCEPT !.s = a], {"save"})
                 ELSE [r EXCEPT !.s = a]
           r2 == [r1 EXCEPT !.s.mf.moff = h.off]
           q == ProcessHeader(n, r, h)
<1>0. c \in Nat /\ c >= r.s.cur
  BY SMTT(60), MaxOfTwo DEF ResultOK, EpochsOK
<1>1. q \in {r1, r2}
  BY DEF ProcessHeader
<1> HIDE DEF c
<1>2. NoVote(r.s, a)
  BY <1>0 DEF ResultOK, NoVote, EpochsOK, StFields
<1> HIDE DEF a
<1>3. Quiet(r, r1)
  BY <1>2, QuietState
<1> HIDE DEF r1
<1>4. ResultOK(r1)
  BY <1>3, QuietTrans, QuietSame
<1>5. Quiet(r1, r2)
  BY <1>4 DEF Quiet, NoVote, ResultOK, EpochsOK, Fields, StFields
<1>6. Quiet(r, r2)
  BY <1>3, <1>5, QuietTrans
<1> HIDE DEF r2, q
<1>7. Quiet(r, q)
  BY <1>1, <1>3, <1>6
<1> QED
  BY <1>7 DEF q

\* Changes of the flag or the role of a node, and of the slots.
LEMMA QuietViews ==
  ASSUME NEW r, ResultOK(r), NEW x, NEW flag, NEW f, NEW todo
  PROVE  /\ Quiet(r, Todo([r EXCEPT !.s.view[x].flag = flag], todo))
         /\ Quiet(r, Todo([r EXCEPT !.s.slots = f, !.s.view[x].role = "slave",
                                    !.s.view[x].migrate_to = FALSE], todo))
<1>1. Quiet(r, Todo([r EXCEPT !.s.view[x].flag = flag], todo))
  BY DEF Quiet, NoVote, ResultOK, EpochsOK, Fields, StFields, Todo
<1>2. Quiet(r, Todo([r EXCEPT !.s.slots = f, !.s.view[x].role = "slave",
                              !.s.view[x].migrate_to = FALSE], todo))
  <2> DEFINE a == [r EXCEPT !.s.slots = f]
             b == [a EXCEPT !.s.view[x].role = "slave"]
             c == [b EXCEPT !.s.view[x].migrate_to = FALSE]
             q == Todo(c, todo)
  <2>1. /\ DOMAIN a = Fields /\ DOMAIN a.s = StFields /\ a.out = r.out
        /\ a.s.cur = r.s.cur /\ a.s.lastVote = r.s.lastVote
    BY DEF ResultOK, EpochsOK, Fields, StFields
  <2> HIDE DEF a
  <2>2. /\ DOMAIN b = Fields /\ DOMAIN b.s = StFields /\ b.out = r.out
        /\ b.s.cur = r.s.cur /\ b.s.lastVote = r.s.lastVote
    BY <2>1 DEF Fields, StFields
  <2> HIDE DEF b
  <2>3. /\ DOMAIN c = Fields /\ DOMAIN c.s = StFields /\ c.out = r.out
        /\ c.s.cur = r.s.cur /\ c.s.lastVote = r.s.lastVote
    BY <2>2 DEF Fields, StFields
  <2> HIDE DEF c
  <2>4. /\ DOMAIN q = Fields /\ q.s = c.s /\ q.out = r.out
    BY <2>3 DEF Todo, Fields
  <2> HIDE DEF q
  <2>5. Quiet(r, q)
    BY <2>3, <2>4 DEF Quiet, NoVote, ResultOK, EpochsOK
  <2> QED
    BY <2>5 DEF a, b, c, q
<1> QED
  BY <1>1, <1>2

\* A PONG clears a failure state, and casts no vote.
LEMMA QuietPong ==
  ASSUME NEW r, ResultOK(r), NEW x, NEW old
  PROVE  Quiet(r, PongClears(r, x, old))
<1>1. Quiet(r, Todo([r EXCEPT !.s.view[x].flag = "ok"], {"save", "update"})) /\ Quiet(r, r)
  BY ZenonT(60), QuietViews, QuietSame
<1> QED
  BY <1>1 DEF PongClears, ClearNodeFailureIfNeeded

\* A sender's switch between master and slave leaves the epochs alone.
LEMMA QuietRoleSwitch ==
  ASSUME NEW r, ResultOK(r), NEW n, NEW h
  PROVE  Quiet(r, RoleSwitch(n, r, h))
<1> DEFINE x == h.from
           f == [s \in Slot |-> IF r.s.slots[s] = x THEN None ELSE r.s.slots[s]]
           r1 == IF IsSlave(r.s, x) THEN r
                 ELSE Todo([r EXCEPT !.s.slots = f, !.s.view[x].role = "slave",
                                     !.s.view[x].migrate_to = FALSE], {"save", "update"})
           a == RemoveSlave(r1.s, x)
           b == AddSlave(a, x, h.slaveof)
           r2 == Todo([r1 EXCEPT !.s = b], {"save"})
           r3 == SetNodeAsMaster(n, r, x)
           q == RoleSwitch(n, r, h)
<1>1. q \in {r1, r2, r3}
  BY ZenonT(60) DEF RoleSwitch
<1> HIDE DEF f
<1>2. Quiet(r, r1)
  BY ZenonT(60), QuietViews, QuietSame
<1> HIDE DEF r1
<1>3. ResultOK(r1)
  BY <1>2, QuietTrans, QuietSame
<1>4. NoVote(r1.s, a)
  BY <1>3, NoVoteState DEF ResultOK
<1> HIDE DEF a
<1>5. NoVote(a, b)
  BY <1>4, NoVoteState DEF NoVote
<1> HIDE DEF b
<1>6. NoVote(r1.s, b)
  BY <1>3, <1>4, <1>5, NoVoteTrans DEF ResultOK
<1>7. Quiet(r1, r2)
  BY <1>3, <1>6, QuietState
<1>8. Quiet(r, r2)
  BY <1>2, <1>7, QuietTrans
<1>9. Quiet(r, r3)
  BY QuietSetNodeAsMaster
<1> HIDE DEF r2, r3, q
<1>10. Quiet(r, q)
  BY <1>1, <1>2, <1>8, <1>9
<1> QED
  BY <1>10 DEF q

\* The slots a sender claims: taken over or answered with an UPDATE, without a vote.
LEMMA QuietSlotClaims ==
  ASSUME NEW r, ResultOK(r), NEW n, NEW h
  PROVE  Quiet(r, SlotClaims(n, r, h))
<1> DEFINE x == h.from
           q == SlotClaims(n, r, h)
           u == UpdateSlotsConfigWith(n, r, x, h.cfg, h.slots)
<1>1. \E r1 \in {r, u} : q = r1 \/ \E owner : q = SendUpdate(n, r1, x, owner)
  BY ZenonT(60) DEF SlotClaims
<1>2. Quiet(r, u) /\ Quiet(r, r)
  BY QuietUpdateSlots, QuietSame
<1>3. PICK r1 \in {r, u} : q = r1 \/ \E owner : q = SendUpdate(n, r1, x, owner)
  BY <1>1
<1> HIDE DEF q, u
<1>4. Quiet(r, r1) /\ ResultOK(r1)
  BY <1>2, <1>3, QuietTrans
<1>5. CASE q = r1
  BY <1>4, <1>5 DEF q
<1>6. ASSUME NEW owner, q = SendUpdate(n, r1, x, owner) PROVE Quiet(r, q)
  <2>1. Quiet(r1, q)
    BY ZenonT(60), <1>4, <1>6, QuietSend
  <2> QED
    BY <1>4, <2>1, QuietTrans
<1> QED
  BY <1>3, <1>5, <1>6 DEF q

\* PING and PONG cast no vote.
LEMMA QuietPing ==
  ASSUME NEW r, ResultOK(r), NEW n, NEW p, NEW old
  PROVE  Quiet(r, ProcessPing(n, r, p, old))
<1> DEFINE h == p.hdr
           r0 == IF p.type = "PING"
                 THEN [r EXCEPT !.out = @ \cup {PingPacket(n, r.s, h.from, "PONG")}] ELSE r
           r1 == IF p.type = "PONG" THEN PongClears(r0, h.from, old) ELSE r0
           r2 == RoleSwitch(n, r1, h)
           r3 == SlotClaims(n, r2, h)
           r4 == IF IsMaster(r3.s, n) /\ IsMaster(r3.s, h.from) /\ h.cfg = r3.s.view[n].epoch
                 THEN HandleConfigEpochCollision(n, r3, h.from) ELSE r3
           r5 == ProcessGossipSection(n, r4, h.from, p.bad)
<1>1. r5 = ProcessPing(n, r, p, old)
  BY DEF ProcessPing
<1>2. Quiet(r, r0)
  BY QuietSend, QuietSame
<1> HIDE DEF r0
<1>3. ResultOK(r0)
  BY <1>2, QuietSame, QuietTrans
<1>4. Quiet(r0, r1)
  BY <1>3, QuietPong, QuietSame
<1> HIDE DEF r1
<1>5. Quiet(r, r1) /\ ResultOK(r1)
  BY <1>2, <1>4, QuietTrans
<1>6. Quiet(r1, r2)
  BY <1>5, QuietRoleSwitch
<1> HIDE DEF r2
<1>7. Quiet(r, r2) /\ ResultOK(r2)
  BY <1>5, <1>6, QuietTrans
<1>8. Quiet(r2, r3)
  BY <1>7, QuietSlotClaims
<1> HIDE DEF r3
<1>9. Quiet(r, r3) /\ ResultOK(r3)
  BY <1>7, <1>8, QuietTrans
<1>10. Quiet(r3, r4)
  BY <1>9, QuietEpochs, QuietSame
<1> HIDE DEF r4
<1>11. Quiet(r, r4) /\ ResultOK(r4)
  BY <1>9, <1>10, QuietTrans
<1>12. Quiet(r4, r5)
  BY <1>11, QuietGossip
<1> HIDE DEF r5
<1>13. Quiet(r, r5)
  BY <1>11, <1>12, QuietTrans
<1> QED
  BY <1>1, <1>13

\* FAIL, FAILOVER_AUTH_ACK, MFSTART and UPDATE cast no vote.
LEMMA QuietPackets ==
  ASSUME NEW r, ResultOK(r), NEW n, NEW p
  PROVE  /\ Quiet(r, ProcessFail(n, r, p))
         /\ Quiet(r, ProcessAuthAck(n, r, p))
         /\ Quiet(r, ProcessMFStart(n, r, p))
         /\ Quiet(r, ProcessUpdate(n, r, p))
<1>0. Quiet(r, r)
  BY QuietSame
<1>1. Quiet(r, ProcessFail(n, r, p))
  BY ZenonT(60), <1>0, QuietViews DEF ProcessFail
<1>2. Quiet(r, ProcessAuthAck(n, r, p))
  <2>1. Quiet(r, Todo([r EXCEPT !.s.auth.count = @ + 1], {"failover"}))
    BY DEF Quiet, NoVote, ResultOK, EpochsOK, Fields, StFields, Todo
  <2> QED
    BY <1>0, <2>1 DEF ProcessAuthAck
<1>3. Quiet(r, ProcessMFStart(n, r, p))
  <2>1. ASSUME NEW f PROVE Quiet(r, [r EXCEPT !.s.mf = f])
    BY DEF Quiet, NoVote, ResultOK, EpochsOK, Fields, StFields
  <2> QED
    BY <1>0, <2>1 DEF ProcessMFStart
<1>4. Quiet(r, ProcessUpdate(n, r, p))
  <2> DEFINE a == SetNodeAsMaster(n, r, p.about)
             b == Todo(a, {"save"})
             c == [b EXCEPT !.s.view[p.about].epoch = p.aepoch]
             d == UpdateSlotsConfigWith(n, c, p.about, p.aepoch, p.aslots)
  <2>1. Quiet(r, a)
    BY QuietSetNodeAsMaster
  <2> HIDE DEF a
  <2>2. ResultOK(a)
    BY <1>0, <2>1, QuietTrans
  <2>3. Quiet(a, b)
    BY ZenonT(60), <2>2, QuietState, QuietSame
  <2> HIDE DEF b
  <2>4. Quiet(r, b) /\ ResultOK(b)
    BY <2>1, <2>3, QuietTrans
  <2>5. Quiet(b, c)
    BY <2>4 DEF Quiet, NoVote, ResultOK, EpochsOK, Fields, StFields
  <2> HIDE DEF c
  <2>6. Quiet(r, c) /\ ResultOK(c)
    BY <2>4, <2>5, QuietTrans
  <2>7. Quiet(c, d)
    BY <2>6, QuietUpdateSlots
  <2>8. Quiet(r, d)
    BY <2>6, <2>7, QuietTrans
  <2> QED
    BY <1>0, <2>8 DEF ProcessUpdate, a, b, c
<1> QED
  BY <1>1, <1>2, <1>3, <1>4

\* clusterFailoverReplaceYourMaster() casts no vote.
LEMMA QuietReplace ==
  ASSUME NEW r, ResultOK(r), NEW n
  PROVE  Quiet(r, FailoverReplaceYourMaster(n, r))
<1> DEFINE old == r.s.view[n].slaveof
           a == SetNodeAsMaster(n, r, n)
           g == GiveSlots(a.s, SlotsOf(a.s, old), n)
           u == UpdateState(n, g, "none")
           b == [a EXCEPT !.s = u]
           c == Todo(b, {"save"})
           d == BroadcastPong(n, c, Node \ {n})
           e == [d EXCEPT !.s = ResetManualFailover(@)]
<1>1. Quiet(r, a)
  BY QuietSetNodeAsMaster
<1> HIDE DEF a
<1>2. ResultOK(a)
  BY <1>1, QuietSame, QuietTrans
<1>3. NoVote(a.s, g)
  BY <1>2, NoVoteState DEF ResultOK
<1> HIDE DEF g
<1>4. NoVote(g, u)
  BY <1>3, NoVoteState DEF NoVote
<1> HIDE DEF u
<1>5. NoVote(a.s, u)
  BY <1>2, <1>3, <1>4, NoVoteTrans DEF ResultOK
<1>6. Quiet(a, b)
  BY <1>2, <1>5, QuietState
<1> HIDE DEF b
<1>7. Quiet(r, b) /\ ResultOK(b)
  BY <1>1, <1>6, QuietTrans
<1>8. Quiet(b, c)
  BY ZenonT(60), <1>7, QuietSame, QuietState
<1> HIDE DEF c
<1>9. Quiet(r, c) /\ ResultOK(c)
  BY <1>7, <1>8, QuietTrans
<1>10. Quiet(c, d)
  BY ZenonT(60), <1>9, QuietSend
<1> HIDE DEF d
<1>11. Quiet(r, d) /\ ResultOK(d)
  BY <1>9, <1>10, QuietTrans
<1>12. Quiet(d, e)
  <2>1. NoVote(d.s, ResetManualFailover(d.s))
    BY <1>11, NoVoteState DEF ResultOK
  <2> QED
    BY <1>11, <2>1, QuietState
<1> HIDE DEF e
<1>13. Quiet(r, e) /\ Quiet(r, r)
  BY <1>11, <1>12, QuietSame, QuietTrans
<1> QED
  BY <1>13 DEF FailoverReplaceYourMaster, old, a, b, c, d, e, g, u

\* clusterHandleSlaveFailover() may start an epoch and ask for votes; it casts none.
LEMMA QuietFailover ==
  ASSUME NEW r, ResultOK(r), NEW n
  PROVE  Quiet(r, HandleSlaveFailover(n, r))
<1>0. Quiet(r, r)
  BY QuietSame
<1>1. Quiet(r, ScheduleElection(n, r))
  <2> DEFINE a == [r EXCEPT !.s.auth = [phase |-> IF r.s.mf.end # 0 THEN "open" ELSE "delay",
                                        sent |-> FALSE, count |-> 0, epoch |-> r.s.auth.epoch]]
  <2>1. Quiet(r, a)
    BY DEF Quiet, NoVote, ResultOK, EpochsOK, Fields, StFields
  <2> HIDE DEF a
  <2>2. Quiet(a, BroadcastPong(n, a, LocalSlaves(n, r.s)))
    BY ZenonT(60), <1>0, <2>1, QuietTrans, QuietSend
  <2>3. Quiet(r, BroadcastPong(n, a, LocalSlaves(n, r.s)))
    BY <2>1, <2>2, QuietTrans
  <2> QED
    BY <2>3 DEF ScheduleElection, a
<1>2. Quiet(r, RequestFailoverAuth(n, r))
  <2> DEFINE a == [r.s EXCEPT !.cur = @ + 1, !.auth.epoch = r.s.cur + 1, !.auth.sent = TRUE]
             S == {[hdr |-> BuildMessageHdr(n, a), to |-> x, type |-> "AUTH_REQUEST",
                    force |-> a.mf.end # 0] : x \in Node \ {n}}
             b == [r EXCEPT !.s = a]
             c == [b EXCEPT !.out = @ \cup S]
             d == [r EXCEPT !.s = a, !.out = @ \cup S]
             e == Todo(d, {"save", "update"})
  <2>1. NoVote(r.s, a)
    BY DEF NoVote, ResultOK, EpochsOK, StFields
  <2> HIDE DEF a
  <2>2. EpochsOK(a)
    BY <2>1 DEF NoVote
  <2>3. \A p \in S : Plain(p)
    BY <2>2, PlainPacket DEF Plain, EpochsOK
  <2> HIDE DEF S
  <2>4. Quiet(r, d)
    BY <2>1, <2>3 DEF Quiet, NoVote, ResultOK, EpochsOK, Fields
  <2> HIDE DEF d
  <2>5. ResultOK(d)
    BY <1>0, <2>4, QuietTrans
  <2>6. Quiet(d, e)
    BY ZenonT(60), <2>5, QuietState, QuietSame
  <2>7. Quiet(r, e)
    BY <2>4, <2>6, QuietTrans
  <2> QED
    BY <2>7 DEF RequestFailoverAuth, a, S, d
<1>3. Quiet(r, WinElection(n, r))
  <2> DEFINE a == [r EXCEPT !.won = TRUE, !.s.view[n].epoch = Max({@, r.s.auth.epoch})]
  <2>1. Quiet(r, a)
    BY DEF Quiet, NoVote, ResultOK, EpochsOK, Fields, StFields
  <2> HIDE DEF a
  <2>2. Quiet(a, FailoverReplaceYourMaster(n, a))
    BY <1>0, <2>1, QuietTrans, QuietReplace
  <2>3. Quiet(r, FailoverReplaceYourMaster(n, a))
    BY <2>1, <2>2, QuietTrans
  <2> QED
    BY <2>3 DEF WinElection, a
<1>4. HandleSlaveFailover(n, r) \in {r, ScheduleElection(n, r), RequestFailoverAuth(n, r), WinElection(n, r)}
  BY DEF HandleSlaveFailover
<1> QED
  BY <1>0, <1>1, <1>2, <1>3, <1>4

\* clusterBeforeSleep() casts no vote.
LEMMA QuietBeforeSleep ==
  ASSUME NEW r, ResultOK(r), NEW n, NEW delay
  PROVE  Quiet(r, BeforeSleep(n, r, delay))
<1> DEFINE a == IF "failover" \in r.todo THEN HandleSlaveFailover(n, r) ELSE r
           b == IF "update" \in a.todo THEN [a EXCEPT !.s = UpdateState(n, @, delay)] ELSE a
<1>1. Quiet(r, a)
  BY QuietFailover, QuietSame
<1> HIDE DEF a
<1>2. ResultOK(a)
  BY <1>1, QuietSame, QuietTrans
<1>3. NoVote(a.s, UpdateState(n, a.s, delay))
  BY <1>2, NoVoteState DEF ResultOK
<1>4. Quiet(a, [a EXCEPT !.s = UpdateState(n, @, delay)]) /\ Quiet(a, a)
  BY <1>2, <1>3, QuietState, QuietSame
<1>5. Quiet(r, b)
  BY <1>1, <1>4, QuietTrans
<1> QED
  BY <1>5 DEF BeforeSleep, a

-----------------------------------------------------------------------------
\* What a whole handler on state st may do: at most one vote, in an epoch later
\* than that of the last one, which becomes the epoch of the last vote.
Outcome(st, r) ==
  /\ ResultOK(r)
  /\ r.s.lastVote >= st.lastVote
  /\ \A p \in r.out : p.hdr.cur \in Nat
  /\ \E x : \A p \in r.out : p.type = "AUTH_ACK" =>
       p.to = x /\ p.hdr.cur = r.s.lastVote /\ st.lastVote < r.s.lastVote

\* What follows a handler within the same step keeps that.
LEMMA OutcomeQuiet ==
  ASSUME NEW st, NEW r, NEW q, Outcome(st, r), Quiet(r, q)
  PROVE  Outcome(st, q)
<1>1. PICK x : \A p \in r.out : p.type = "AUTH_ACK" =>
                 p.to = x /\ p.hdr.cur = r.s.lastVote /\ st.lastVote < r.s.lastVote
  BY DEF Outcome
<1>2. q.s.lastVote = r.s.lastVote /\ ResultOK(q)
  BY DEF Outcome, Quiet, NoVote, ResultOK
<1>3. \A p \in q.out : p \in r.out \/ Plain(p)
  BY DEF Quiet
<1>4. \A p \in q.out : p.type = "AUTH_ACK" =>
        p.to = x /\ p.hdr.cur = q.s.lastVote /\ st.lastVote < q.s.lastVote
  BY <1>1, <1>2, <1>3 DEF Plain
<1>5. \A p \in q.out : p.hdr.cur \in Nat
  BY <1>3 DEF Outcome, Plain
<1> QED
  BY <1>2, <1>4, <1>5 DEF Outcome

\* The start of a handler has such an outcome.
LEMMA OutcomeBegin ==
  ASSUME NEW st, NEW t, EpochsOK(st), NoVote(st, t)
  PROVE  ResultOK(Begin(t)) /\ Outcome(st, Begin(t)) /\ Begin(t).s = t
<1>1. Begin(t).out = {} /\ Begin(t).s = t /\ DOMAIN Begin(t) = Fields
  BY SMTT(60) DEF Begin, Fields
<1> QED
  BY <1>1 DEF Outcome, ResultOK, NoVote, EpochsOK

\* clusterSendFailoverAuthIfNeeded(): a vote is cast in the current epoch, and only
\* when the last one was in an earlier epoch.
LEMMA OutcomeVote ==
  ASSUME NEW st, EpochsOK(st), NEW r, Outcome(st, r), r.out = {}, NEW n, NEW p, NEW recent
  PROVE  Outcome(st, SendFailoverAuthIfNeeded(n, r, p, recent))
<1> DEFINE t == r.s
           x == p.hdr.from
           m == t.view[x].slaveof
           k == Packet(n, t, x, "AUTH_ACK")
           v == [r EXCEPT !.out = @ \cup {k}, !.s.lastVote = t.cur, !.s.view[m].voted = x]
           q == SendFailoverAuthIfNeeded(n, r, p, recent)
<1>1. q = r \/ (q = v /\ t.lastVote # t.cur)
  BY ZenonT(60) DEF SendFailoverAuthIfNeeded
<1>2. CASE q = r
  BY <1>2
<1>3. CASE q = v /\ t.lastVote # t.cur
  <2>1. EpochsOK(t) /\ DOMAIN r = Fields /\ t.lastVote >= st.lastVote
    BY DEF Outcome, ResultOK
  <2>2. k.hdr.cur = t.cur /\ k.to = x
    BY <2>1, PlainPacket DEF Packet
  <2> HIDE DEF k
  <2>3. /\ DOMAIN v = Fields /\ DOMAIN v.s = StFields
        /\ v.s.cur = t.cur /\ v.s.lastVote = t.cur /\ v.out = {k}
    BY ZenonT(60), <2>1 DEF EpochsOK, Fields, StFields
  <2> HIDE DEF v
  <2>4. t.lastVote < t.cur /\ t.cur \in Nat /\ t.lastVote \in Nat
    BY <1>3, <2>1 DEF EpochsOK
  <2>5. st.lastVote < t.cur
    BY <2>1, <2>4 DEF EpochsOK
  <2> HIDE DEF t, x, q
  <2>6. ResultOK(v) /\ v.s.lastVote >= st.lastVote
    BY <2>3, <2>4, <2>5 DEF ResultOK, EpochsOK
  <2>7. \A j \in v.out : j.hdr.cur \in Nat /\ j.to = x /\ j.hdr.cur = v.s.lastVote
    BY <2>2, <2>3, <2>4
  <2>8. Outcome(st, v)
    BY <2>3, <2>5, <2>6, <2>7 DEF Outcome
  <2> QED
    BY <1>3, <2>8 DEF q
<1> QED
  BY <1>1, <1>2, <1>3

\* clusterProcessPacket() casts at most the vote an AUTH_REQUEST asks for.
LEMMA OutcomePacket ==
  ASSUME NEW st, EpochsOK(st), NEW n, NEW p, p.hdr.cur \in Nat, NEW choice,
         p.type \in Types
  PROVE  Outcome(st, ProcessPacket(n, st, p, choice))
<1> DEFINE b == Begin(st)
           r == ProcessHeader(n, b, p.hdr)
<1>1. NoVote(st, st) /\ ResultOK(b) /\ Outcome(st, b)
  BY NoVoteState, OutcomeBegin
<1>2. b.out = {}
  BY DEF Begin
<1>3. Quiet(b, r)
  BY <1>1, QuietHeader
<1>4. r.out = {}
  <2> HIDE DEF b
  <2> QED
    BY <1>1, <1>2 DEF ProcessHeader, Todo, ResultOK, Fields
<1> HIDE DEF b, r
<1>5. Outcome(st, r) /\ ResultOK(r)
  BY ZenonT(60), <1>1, <1>3, OutcomeQuiet DEF Outcome
<1>6. ASSUME NEW q, Quiet(r, q) PROVE Outcome(st, q)
  BY <1>5, <1>6, OutcomeQuiet
<1>7. /\ Outcome(st, ProcessPing(n, r, p, choice))
      /\ Outcome(st, ProcessFail(n, r, p))
      /\ Outcome(st, ProcessAuthAck(n, r, p))
      /\ Outcome(st, ProcessMFStart(n, r, p))
      /\ Outcome(st, ProcessUpdate(n, r, p))
  BY <1>5, <1>6, QuietPing, QuietPackets
<1>8. Outcome(st, SendFailoverAuthIfNeeded(n, r, p, choice))
  BY SMTT(60), <1>4, <1>5, OutcomeVote
<1> QED
  BY <1>7, <1>8 DEF ProcessPacket, Types, b, r

-----------------------------------------------------------------------------
\* The inductive invariant: no vote sent is of a later epoch than the lastVoteEpoch
\* of its voter.
VoteInv ==
  /\ scn \in Scenario
  /\ DOMAIN nd = Node
  /\ \A n \in Node : EpochsOK(nd[n])
  /\ \A p \in net : p.hdr.cur \in Nat
  /\ \A g \in granted : g[1] \in Node /\ g[2] \in Nat /\ g[2] <= nd[g[1]].lastVote
  /\ OneVotePerEpoch

\* A handler with such an outcome, whose packets enter the network, keeps the
\* invariant: its vote is of a later epoch than all the earlier ones of this node.
LEMMA VoteCommit ==
  ASSUME VoteInv, NEW n \in Node, NEW r, Outcome(nd[n], r), NEW rest \in SUBSET net,
         Commit(n, r, rest), scn' = scn
  PROVE  VoteInv'
<1> DEFINE new == {<<n, p.hdr.cur, p.to>> : p \in {q \in r.out : q.type = "AUTH_ACK"}}
<1>1. /\ nd' = [nd EXCEPT ![n] = r.s]
      /\ granted' = granted \cup new
  BY DEF Commit
<1>2. \A p \in net' : p \in rest \/ p \in r.out
  BY DEF Commit, Pings
<1>3. PICK x : \A p \in r.out : p.type = "AUTH_ACK" =>
                 p.to = x /\ p.hdr.cur = r.s.lastVote /\ nd[n].lastVote < r.s.lastVote
  BY DEF Outcome
<1>4. \A g \in new : g = <<n, r.s.lastVote, x>> /\ nd[n].lastVote < r.s.lastVote
  BY <1>3
<1> HIDE DEF new
<1>5. /\ DOMAIN nd' = Node /\ nd'[n] = r.s
      /\ \A m \in Node \ {n} : nd'[m] = nd[m]
  BY <1>1 DEF VoteInv
<1>6. EpochsOK(r.s) /\ r.s.lastVote >= nd[n].lastVote /\ EpochsOK(nd[n])
  BY DEF Outcome, ResultOK, VoteInv
<1>7. \A m \in Node : EpochsOK(nd'[m]) /\ nd'[m].lastVote >= nd[m].lastVote
  BY <1>5, <1>6 DEF VoteInv, EpochsOK
<1>8. \A p \in net' : p.hdr.cur \in Nat
  BY <1>2 DEF VoteInv, Outcome
<1>9. \A g \in granted' : g[1] \in Node /\ g[2] \in Nat /\ g[2] <= nd'[g[1]].lastVote
  <2> SUFFICES ASSUME NEW g \in granted'
               PROVE  g[1] \in Node /\ g[2] \in Nat /\ g[2] <= nd'[g[1]].lastVote
    OBVIOUS
  <2>1. CASE g \in granted
    <3>1. g[1] \in Node /\ g[2] \in Nat /\ g[2] <= nd[g[1]].lastVote
      BY <2>1 DEF VoteInv
    <3>2. nd[g[1]].lastVote \in Nat
      BY <3>1 DEF VoteInv, EpochsOK
    <3> QED
      BY <1>7, <3>1, <3>2 DEF EpochsOK
  <2>2. CASE g \in new
    BY <1>4, <1>5, <1>6, <2>2 DEF EpochsOK
  <2> QED
    BY <1>1, <2>1, <2>2
<1>10. OneVotePerEpoch'
  <2> SUFFICES ASSUME NEW g \in granted', NEW h \in granted', g[1] = h[1], g[2] = h[2]
               PROVE  g[3] = h[3]
    BY DEF OneVotePerEpoch
  <2>1. CASE g \in granted /\ h \in granted
    BY <2>1 DEF VoteInv, OneVotePerEpoch
  <2>2. CASE g \in new /\ h \in new
    BY <1>4, <2>2
  <2>3. ASSUME NEW a \in granted, NEW b \in new, a[1] = b[1], a[2] = b[2] PROVE FALSE
    <3>1. b[1] = n /\ b[2] = r.s.lastVote /\ nd[n].lastVote < r.s.lastVote
      BY <1>4
    <3>2. a[2] \in Nat /\ a[2] <= nd[n].lastVote
      BY <2>3, <3>1 DEF VoteInv
    <3> QED
      BY <1>6, <2>3, <3>1, <3>2 DEF EpochsOK
  <2> QED
    BY <1>1, <2>1, <2>2, <2>3
<1> QED
  BY <1>5, <1>7, <1>8, <1>9, <1>10 DEF VoteInv

\* A step of one node that sends no packet and does not vote.
LEMMA VoteLocal ==
  ASSUME VoteInv, NEW n \in Node, NEW t, NoVote(nd[n], t), nd' = [nd EXCEPT ![n] = t],
         net' \subseteq net, UNCHANGED <<scn, granted>>
  PROVE  VoteInv'
BY DEF VoteInv, NoVote, EpochsOK, OneVotePerEpoch

-----------------------------------------------------------------------------
\* A handler that starts from t and is quiet has such an outcome.
LEMMA OutcomeLocal ==
  ASSUME NEW st, EpochsOK(st), NEW t, NoVote(st, t), NEW q, Quiet(Begin(t), q)
  PROVE  Outcome(st, q)
BY OutcomeBegin, OutcomeQuiet

\* clusterCron(), with what clusterBeforeSleep() does after it, casts no vote.
LEMMA OutcomeCron ==
  ASSUME NEW n \in Node, EpochsOK(nd[n]), NEW late, NEW pinged, NEW delay,
         NEW q \in CronResults(n, late, pinged, delay)
  PROVE  Outcome(nd[n], q)
<1> DEFINE st == nd[n]
           s1 == [st EXCEPT !.view = [x \in Node |-> IF x \in late /\ @[x].flag = "ok"
                                                THEN [@[x] EXCEPT !.flag = "pfail"] ELSE @[x]]]
           s2 == ManualFailoverCheckTimeout(s1)
           pings == {PingPacket(n, s1, x, "PING") : x \in pinged}
           r0 == [Begin(s2) EXCEPT !.out = pings]
           h2 == HandleManualFailover(s2)
           h0 == [r0 EXCEPT !.s = h2]
           r1 == IF IsSlave(s2, n) THEN HandleSlaveFailover(n, h0) ELSE r0
           masters == {x \in Node \ {n} : IsMaster(s2, x) /\ s2.view[x].flag # "fail"}
           most == Max({0} \cup {Cardinality(OkSlaves(s2, x)) : x \in masters})
           orphans == {x \in masters : Orphaned(s2, x) /\ SlotsOf(s2, x) # {}}
           moved == IF /\ op("migrate") /\ IsSlave(r1.s, n) /\ orphans # {} /\ most >= 2
                       /\ r1.s.view[n].slaveof \in masters
                       /\ Cardinality(OkSlaves(s2, r1.s.view[n].slaveof)) = most
                    THEN HandleSlaveMigration(n, r1.s, most) ELSE {}
           upd == s1 # st \/ ~st.ok
           u(s) == IF upd THEN UpdateState(n, s, delay) ELSE s
           f(s) == [r1 EXCEPT !.s = u(s)]
<1>1. PICK s3 \in {r1.s} \cup moved : q = BeforeSleep(n, f(s3), delay)
  BY ZenonT(60) DEF CronResults
<1>2. NoVote(st, s1)
  <2>1. DOMAIN s1 = StFields /\ s1.cur = st.cur /\ s1.lastVote = st.lastVote
    BY ZenonT(60) DEF EpochsOK, StFields
  <2> QED
    BY ZenonT(60), <2>1, OtherFields
<1> HIDE DEF st, s1
<1>3. NoVote(s1, s2) /\ EpochsOK(s1)
  BY ZenonT(60), <1>2, NoVoteState DEF NoVote
<1>4. NoVote(st, s2) /\ EpochsOK(s2)
  BY ZenonT(60), <1>2, <1>3, NoVoteTrans DEF NoVote, st
<1> HIDE DEF s2
<1>5. \A p \in pings : Plain(p)
  <2>1. \A x : Plain(PingPacket(n, s1, x, "PING"))
    <3>1. "PING" # "AUTH_ACK"
      BY ZenonT(60)
    <3> QED
      BY ZenonT(60), <1>3, <3>1, PlainPacket
  <2> QED
    BY ZenonT(60), <2>1
<1> HIDE DEF pings
<1>6. r0.s = s2 /\ r0.out = pings /\ DOMAIN r0 = Fields
  BY ZenonT(60) DEF Begin, Fields
<1>7. Quiet(Begin(s2), r0) /\ ResultOK(r0)
  <2>1. Begin(s2).s = s2
    BY ZenonT(60) DEF Begin
  <2>2. NoVote(s2, s2)
    BY ZenonT(60), <1>4, NoVoteState
  <2> QED
    BY ZenonT(60), <1>4, <1>5, <1>6, <2>1, <2>2 DEF Quiet, ResultOK
<1> HIDE DEF r0
<1>8. Quiet(r0, r1) /\ ResultOK(r1)
  <2>1. NoVote(r0.s, h2)
    BY ZenonT(60), <1>4, <1>6, NoVoteState
  <2> HIDE DEF h2
  <2>2. Quiet(r0, h0)
    BY ZenonT(60), <1>7, <2>1, QuietState
  <2> HIDE DEF h0
  <2>3. ResultOK(h0)
    BY ZenonT(60), <1>7, <2>2, QuietSame, QuietTrans
  <2>4. Quiet(h0, HandleSlaveFailover(n, h0))
    BY ZenonT(60), <2>3, QuietFailover
  <2>5. Quiet(r0, HandleSlaveFailover(n, h0)) /\ Quiet(r0, r0)
    BY ZenonT(60), <1>7, <2>2, <2>4, QuietTrans, QuietSame
  <2>6. Quiet(r0, r1)
    BY ZenonT(60), <2>5
  <2> HIDE DEF r1
  <2> QED
    BY ZenonT(60), <1>7, <2>6, QuietSame, QuietTrans
<1> HIDE DEF r1, masters, most, orphans
<1>9. NoVote(r1.s, s3)
  <2>1. CASE s3 = r1.s
    BY SMTT(60), <1>8, <2>1, QuietSame
  <2>2. CASE s3 \in moved
    <3>1. s3 \in HandleSlaveMigration(n, r1.s, most)
      BY SMTT(60), <2>2
    <3>2. \E m : s3 = SetMaster(n, r1.s, m)
      BY SMTT(60), <3>1 DEF HandleSlaveMigration
    <3> QED
      BY SMTT(60), <1>8, <3>2, NoVoteSetMaster DEF ResultOK
  <2> QED
    BY <2>1, <2>2
<1> HIDE DEF moved, upd
<1>10. NoVote(r1.s, u(s3))
  <2>1. EpochsOK(s3) /\ EpochsOK(r1.s)
    BY SMTT(60), <1>8, <1>9 DEF NoVote, ResultOK
  <2>2. NoVote(s3, u(s3))
    BY <2>1, NoVoteState
  <2> QED
    BY <1>9, <2>1, <2>2, NoVoteTrans
<1> HIDE DEF u
<1>11. Quiet(r1, f(s3))
  BY <1>8, <1>10, QuietState
<1> HIDE DEF f
<1>12. ResultOK(f(s3))
  BY <1>8, <1>11, QuietSame, QuietTrans
<1>13. Quiet(f(s3), q)
  BY <1>1, <1>12, QuietBeforeSleep
<1>14. Outcome(st, r0)
  BY <1>4, <1>7, OutcomeLocal DEF st
<1>15. Outcome(st, r1)
  BY <1>8, <1>14, OutcomeQuiet
<1>16. Outcome(st, f(s3))
  BY <1>11, <1>15, OutcomeQuiet
<1>17. Outcome(st, q)
  BY <1>13, <1>16, OutcomeQuiet
<1> QED
  BY <1>17 DEF st

\* The commands of the administrator (CLUSTER FAILOVER, REPLICATE and BUMPEPOCH),
\* with what clusterBeforeSleep() does after them, cast no vote.
LEMMA OutcomeFailover ==
  ASSUME NEW st, EpochsOK(st), NEW t, NoVote(st, t), NEW n, NEW m, NEW delay
  PROVE  /\ Outcome(st, BeforeSleep(n, [Begin(t) EXCEPT !.out = {Packet(n, t, m, "MFSTART")}], delay))
         /\ Outcome(st, BeforeSleep(n, Begin(t), delay))
         /\ Outcome(st, BeforeSleep(n, FailoverReplaceYourMaster(n,
                          BumpConfigEpochWithoutConsensus(n, Begin(t))), delay))
         /\ Outcome(st, BeforeSleep(n, BumpConfigEpochWithoutConsensus(n, Begin(t)), delay))
         /\ Outcome(st, BeforeSleep(n, Todo(Begin(t), {"update", "save"}), delay))
<1> DEFINE b == Begin(t)
           k == Packet(n, t, m, "MFSTART")
           c == [b EXCEPT !.out = {k}]
           d == BumpConfigEpochWithoutConsensus(n, b)
           e == FailoverReplaceYourMaster(n, d)
           f == Todo(b, {"update", "save"})
<1>1. ResultOK(b) /\ Outcome(st, b) /\ b.s = t /\ EpochsOK(t) /\ NoVote(t, t)
  BY SMTT(60), OutcomeBegin, NoVoteState DEF NoVote
<1>2. Plain(k)
  BY SMTT(60), <1>1, PlainPacket
<1> HIDE DEF b, k
<1>3. Quiet(b, c)
  BY <1>1, <1>2 DEF Quiet, ResultOK, Fields
<1>4. Quiet(b, d) /\ Quiet(b, b) /\ Quiet(b, f)
  BY ZenonT(60), <1>1, QuietEpochs, QuietSame, QuietState
<1>5. ResultOK(d)
  BY <1>1, <1>4, QuietTrans
<1> HIDE DEF c, d, f
<1>6. Quiet(b, e)
  BY <1>1, <1>4, <1>5, QuietReplace, QuietTrans
<1> HIDE DEF e
<1>7. ASSUME NEW q, Quiet(b, q) PROVE Outcome(st, BeforeSleep(n, q, delay))
  <2>1. ResultOK(q) /\ Outcome(st, q)
    BY <1>1, <1>4, <1>7, QuietTrans, OutcomeQuiet
  <2> QED
    BY <2>1, QuietBeforeSleep, OutcomeQuiet
<1>8. /\ Outcome(st, BeforeSleep(n, c, delay)) /\ Outcome(st, BeforeSleep(n, b, delay))
      /\ Outcome(st, BeforeSleep(n, d, delay)) /\ Outcome(st, BeforeSleep(n, e, delay))
      /\ Outcome(st, BeforeSleep(n, f, delay))
  BY SMTT(60), <1>3, <1>4, <1>6, <1>7
<1> QED
  BY SMTT(60), <1>8 DEF b, c, d, e, f, k

-----------------------------------------------------------------------------
\* clusterReadHandler() keeps the invariant.
LEMMA VoteReceive ==
  ASSUME VoteInv, NEW n \in Node, NEW type \in Types, ReceivePacket(n, type)
  PROVE  VoteInv'
<1>1. PICK p \in {q \in net : q.to = n /\ q.type = type} : \E delay, choice :
        /\ Commit(n, BeforeSleep(n, ProcessPacket(n, nd[n], p, choice), delay), net \ {p})
        /\ scn' = scn
  BY ZenonT(60) DEF ReceivePacket
<1>2. PICK delay, choice :
        /\ Commit(n, BeforeSleep(n, ProcessPacket(n, nd[n], p, choice), delay), net \ {p})
        /\ scn' = scn
  BY <1>1
<1> DEFINE r == ProcessPacket(n, nd[n], p, choice)
           q == BeforeSleep(n, r, delay)
<1>3. EpochsOK(nd[n]) /\ p.hdr.cur \in Nat /\ p.type \in Types
  BY <1>1 DEF VoteInv
<1>4. Outcome(nd[n], r)
  BY <1>3, OutcomePacket
<1> HIDE DEF r
<1>5. Quiet(r, q)
  BY <1>4, QuietBeforeSleep DEF Outcome
<1> HIDE DEF q
<1>6. Outcome(nd[n], q)
  BY SMTT(60), <1>4, <1>5, OutcomeQuiet
<1>7. Commit(n, q, net \ {p})
  BY <1>2 DEF q, r
<1> QED
  BY <1>6, <1>7, <1>2, VoteCommit

\* clusterCron() keeps the invariant.
LEMMA VoteCron ==
  ASSUME VoteInv, NEW n \in Node, NEW late, NEW pinged, ClusterCron(n, late, pinged)
  PROVE  VoteInv'
<1>0. PICK delay : \E r \in CronResults(n, late, pinged, delay) : Commit(n, r, net)
  BY DEF ClusterCron
<1>1. PICK r \in CronResults(n, late, pinged, delay) : Commit(n, r, net)
  BY <1>0
<1>2. scn' = scn
  BY DEF ClusterCron
<1>3. Outcome(nd[n], r)
  BY <1>1, OutcomeCron DEF VoteInv
<1> QED
  BY SMTT(60), <1>1, <1>2, <1>3, VoteCommit

\* CLUSTER FAILOVER, CLUSTER REPLICATE and CLUSTER BUMPEPOCH keep the invariant.
LEMMA VoteCommands ==
  ASSUME VoteInv, NEW n \in Node,
         \/ \E how \in {"manual", "force", "takeover"} : FailoverCommand(n, how)
         \/ \E m \in Node : ReplicateCommand(n, m)
         \/ BumpEpochCommand(n)
  PROVE  VoteInv'
<1>0. EpochsOK(nd[n]) /\ NoVote(nd[n], nd[n])
  BY NoVoteState DEF VoteInv
<1>1. ASSUME NEW how \in {"manual", "force", "takeover"}, FailoverCommand(n, how) PROVE VoteInv'
  <2> DEFINE m == nd[n].view[n].slaveof
             t == [nd[n] EXCEPT !.mf = [end |-> clock + MFTimeout, can |-> how = "force",
                                        slave |-> None, moff |-> 0]]
             a == [Begin(t) EXCEPT !.out = {Packet(n, t, m, "MFSTART")}]
             b == Begin(t)
             c == FailoverReplaceYourMaster(n, BumpConfigEpochWithoutConsensus(n, b))
  <2>1. /\ \E r \in {a, b, c} : Commit(n, BeforeSleep(n, r, "none"), net)
        /\ scn' = scn
    BY <1>1 DEF FailoverCommand
  <2>2. NoVote(nd[n], t)
    <3>1. DOMAIN t = StFields /\ t.cur = nd[n].cur /\ t.lastVote = nd[n].lastVote
      BY <1>0 DEF EpochsOK, StFields
    <3> QED
      BY ZenonT(60), <1>0, <3>1, OtherFields
  <2> HIDE DEF t, m
  <2>3. \A r \in {a, b, c} : Outcome(nd[n], BeforeSleep(n, r, "none"))
    BY ZenonT(60), <1>0, <2>2, OutcomeFailover
  <2> HIDE DEF a, b, c
  <2> QED
    BY SMTT(60), <2>1, <2>3, VoteCommit
<1>2. ASSUME NEW m \in Node, ReplicateCommand(n, m) PROVE VoteInv'
  <2> DEFINE t == SetMaster(n, nd[n], m)
             r == BeforeSleep(n, Todo(Begin(t), {"update", "save"}), "none")
  <2>1. NoVote(nd[n], t)
    BY <1>0, NoVoteSetMaster
  <2>2. Commit(n, r, net) /\ scn' = scn
    BY <1>2 DEF ReplicateCommand
  <2> HIDE DEF t
  <2>3. Outcome(nd[n], r)
    BY ZenonT(60), <1>0, <2>1, OutcomeFailover
  <2> HIDE DEF r
  <2> QED
    BY <2>2, <2>3, VoteCommit
<1>3. ASSUME BumpEpochCommand(n) PROVE VoteInv'
  <2> DEFINE r == BeforeSleep(n, BumpConfigEpochWithoutConsensus(n, Begin(nd[n])), "none")
  <2>1. Commit(n, r, net) /\ scn' = scn
    BY <1>3 DEF BumpEpochCommand
  <2>2. Outcome(nd[n], r)
    BY ZenonT(60), <1>0, OutcomeFailover
  <2> HIDE DEF r
  <2> QED
    BY SMTT(60), <2>1, <2>2, VoteCommit
<1> QED
  BY SMTT(60), <1>1, <1>2, <1>3

\* Timers, writes and the replication stream touch neither epochs nor votes.
LEMMA VoteOthers ==
  ASSUME VoteInv, NEW n \in Node, AuthTimePasses(n) \/ ClientWrite(n) \/ ReplicationStream(n)
  PROVE  VoteInv'
<1>0. EpochsOK(nd[n]) /\ DOMAIN nd = Node
  BY SMTT(60) DEF VoteInv
<1>1. /\ net' = net /\ UNCHANGED <<scn, granted>>
      /\ \E a, b : nd' = [nd EXCEPT ![n].auth.phase = a] \/ nd' = [nd EXCEPT ![n].off = b]
  BY DEF AuthTimePasses, ClientWrite, ReplicationStream
<1>2. PICK a, b : nd' = [nd EXCEPT ![n].auth.phase = a] \/ nd' = [nd EXCEPT ![n].off = b]
  BY <1>1
<1> DEFINE t == [nd[n] EXCEPT !.auth.phase = a]
           u == [nd[n] EXCEPT !.off = b]
<1>3. NoVote(nd[n], t) /\ NoVote(nd[n], u)
  BY <1>0, OtherFields DEF EpochsOK, StFields
<1>4. nd' = [nd EXCEPT ![n] = t] \/ nd' = [nd EXCEPT ![n] = u]
  BY <1>0, <1>2
<1> HIDE DEF t, u
<1> QED
  BY SMTT(60), <1>1, <1>3, <1>4, VoteLocal

\* The first states: the epochs are those of the scenario, and nobody has voted.
LEMMA VoteInit == Init => VoteInv
<1> SUFFICES ASSUME Init PROVE VoteInv
  OBVIOUS
<1>0. scn \in Scenario /\ scn.epoch \in [Node -> Nat] /\ IsFiniteSet(Node) /\ Node # {}
  BY FailoverAssumption DEF Init
<1> DEFINE E == {scn.epoch[x] : x \in Node}
           e == [x \in Node |-> scn.epoch[x]]
<1>1. E \in SUBSET Nat /\ E # {}
  BY <1>0
<1>2. IsFiniteSet(E)
  <2>1. e \in Surjection(Node, E)
    BY DEF Surjection
  <2> QED
    BY <1>0, <2>1, FS_Surjection
<1>3. Max(E) \in Nat
  <2> HIDE DEF E
  <2> QED
    BY ZenonT(60), <1>1, <1>2, FiniteMax
<1>4. ASSUME NEW n \in Node PROVE EpochsOK(nd[n])
  <2>1. PICK st : /\ DOMAIN st = StFields /\ st.cur = Max(E) /\ st.lastVote = 0
                  /\ InitNode(n, scn) = UpdateState(n, st, "none")
    <3> HIDE DEF E
    <3> QED
      BY ZenonT(60) DEF InitNode, StFields, E
  <2> HIDE DEF E
  <2>2. EpochsOK(st)
    BY <1>3, <2>1 DEF EpochsOK
  <2>3. EpochsOK(InitNode(n, scn))
    BY <2>1, <2>2, NoVoteState DEF NoVote
  <2> QED
    BY <2>3 DEF Init
<1> QED
  BY <1>0, <1>4 DEF Init, VoteInv, OneVotePerEpoch

\* No node restarts in this step.
Running == \A n \in Node : ~Restart(n)

\* Every step but a restart keeps the invariant.
LEMMA VoteNext == VoteInv /\ [Next]_vars /\ [Running]_vars => VoteInv'
<1> SUFFICES ASSUME VoteInv, [Next]_vars, [Running]_vars PROVE VoteInv'
  OBVIOUS
<1>0. scn.alive \subseteq Node
  BY FailoverAssumption DEF VoteInv
<1>1. ASSUME NEW n \in Node, NEW type \in Types, ReceivePacket(n, type) PROVE VoteInv'
  BY <1>1, VoteReceive
<1>2. ASSUME NEW n \in Node, NEW late, NEW x, ClusterCron(n, late, {x} \ {None}) PROVE VoteInv'
  BY <1>2, VoteCron
<1>3. ASSUME NEW n \in Node, AuthTimePasses(n) \/ ClientWrite(n) \/ ReplicationStream(n)
      PROVE  VoteInv'
  BY <1>3, VoteOthers
<1>4. ASSUME NEW n \in Node,
             \/ \E how \in {"manual", "force", "takeover"} : FailoverCommand(n, how)
             \/ \E m \in Node : ReplicateCommand(n, m)
             \/ BumpEpochCommand(n)
      PROVE  VoteInv'
  BY <1>4, VoteCommands
<1>5. CASE LoseLink
  BY <1>5 DEF LoseLink, VoteInv, OneVotePerEpoch
<1>6. CASE Tick \/ UNCHANGED vars
  BY <1>6 DEF Tick, vars, VoteInv, OneVotePerEpoch
<1>7. CASE Next /\ Running
  BY ZenonT(60), <1>0, <1>1, <1>2, <1>3, <1>4, <1>5, <1>6, <1>7 DEF Next, Running
<1> QED
  BY <1>6, <1>7

\* clusterSendFailoverAuthIfNeeded(): as long as no node restarts, a master never
\* votes for two slaves in one epoch, whatever is lost, delayed or reordered,
\* whatever the administrator orders, and however many nodes there are.  The
\* condition is the code's: the vote is recorded in lastVoteEpoch without
\* CLUSTER_TODO_SAVE_CONFIG, so a voter that restarts may not know of it.
THEOREM MasterVotesOnce == Spec /\ [][Running]_vars => []OneVotePerEpoch
<1>1. VoteInv => OneVotePerEpoch
  BY DEF VoteInv
<1> QED
  BY <1>1, VoteInit, VoteNext, PTL DEF Spec
=============================================================================

-------------------------- MODULE ClusterFailover --------------------------
(* Redis Cluster's agreement on who serves a hash slot (cluster.c): failure  *)
(* detection by gossip, configuration epochs, the election of a slave, the   *)
(* propagation of the new slot owner and its persistence in nodes.conf, the  *)
(* manual failover and the migration of replicas to orphaned masters.        *)
(* Every node knows every other one by name: nodes joining and leaving are   *)
(* not modelled.  A handler is one step together with the                    *)
(* clusterBeforeSleep() that runs before the event loop waits again, and so  *)
(* before anything it queued is written to a socket.                         *)
EXTENDS Integers, FiniteSets, FiniteSetsExt, TLC

CONSTANTS
  Node,        \* the nodes
  Slot,        \* the hash slots, a set of naturals
  None,        \* NULL
  NodeId,      \* [Node -> Nat]: the order of the node names
  Scenario,    \* the instances started from: [master, owner, epoch] the roles,
               \* slots and epochs, hadslaves the masters that had a slave,
               \* failed those everyone flags FAIL, [alive, crash, late, fresh]
               \* the nodes that run, that may restart, whose pongs may come
               \* late and whose data is recent, pings[n] those n pings, ops
               \* the commands and faults, maxepoch, ticks and barrier bounds
  FairPing     \* [Node -> SUBSET Node]: see Fairness

ASSUME FailoverAssumption ==
  /\ IsFiniteSet(Node) /\ Node # {}
  /\ \A sc \in Scenario : sc.epoch \in [Node -> Nat] /\ sc.alive \subseteq Node

VARIABLES
  scn,         \* the scenario this behaviour plays
  nd,          \* nd[n]: the clusterState of node n
  net,         \* packets in the links' buffers
  disk,        \* disk[n]: what nodes.conf holds, for n in scn.crash
  clock,       \* ticks of the nodes' clocks, kept by the manual failover
  granted,     \* history: <<voter, epoch, slave>> of every vote sent
  won          \* history: <<epoch, slave>> of every election won

vars == <<scn, nd, net, disk, clock, granted, won>>

\* Bounds: PINGs and PONGs in flight, restarts per node, clock ticks, writes.
MaxPings == 1
MFTimeout == 1

op(o) == o \in scn.ops
-----------------------------------------------------------------------------
(* The state of a node.  r is a handler at work: the state it builds, what   *)
(* it has queued and what clusterDoBeforeSleep() recorded.                   *)

IsMaster(st, x) == st.view[x].role = "master"
IsSlave(st, x) == st.view[x].role = "slave"
SlotsOf(st, x) == {s \in Slot : st.slots[s] = x}
SlavesOf(st, x) == {y \in Node : st.view[y].slaveof = x}
Quorum_Half(st) == st.size \div 2

Quorum(st) == (st.size \div 2) + 1

Begin(st) == [s |-> st, out |-> {}, todo |-> {}, won |-> FALSE]
Todo(r, flags) == [r EXCEPT !.todo = @ \cup flags]

\* clusterBuildMessageHdr(): a slave speaks for the slots of its master.
BuildMessageHdr(n, st) ==
  LET m == IF IsSlave(st, n) /\ st.view[n].slaveof # None THEN st.view[n].slaveof ELSE n
  IN [from |-> n, cur |-> st.cur, cfg |-> st.view[m].epoch, slots |-> SlotsOf(st, m),
      slaveof |-> st.view[n].slaveof, off |-> st.off,
      paused |-> IsMaster(st, n) /\ st.mf.end # 0]

\* clusterSendPing(): the header and what the sender thinks of the others.
PingPacket(n, st, to, type) ==
  [hdr |-> BuildMessageHdr(n, st), to |-> to, type |-> type,
   bad |-> {x \in Node \ {n} : st.view[x].flag # "ok"}]

Packet(n, st, to, type) == [hdr |-> BuildMessageHdr(n, st), to |-> to, type |-> type]

\* clusterSendFail(), for each of the nodes in failing
SendFail(n, r, failing) ==
  [r EXCEPT !.out = @ \cup {[hdr |-> BuildMessageHdr(n, r.s), to |-> a[1], type |-> "FAIL",
                             about |-> a[2]] : a \in (Node \ {n}) \X failing}]

\* clusterSendUpdate(): what this node knows of the owner of a slot.
SendUpdate(n, r, to, owner) ==
  [r EXCEPT !.out = @ \cup {[hdr |-> BuildMessageHdr(n, r.s), to |-> to, type |-> "UPDATE",
                             about |-> owner, aepoch |-> r.s.view[owner].epoch,
                             aslots |-> SlotsOf(r.s, owner)]}]

\* clusterBroadcastPong()
BroadcastPong(n, r, targets) ==
  [r EXCEPT !.out = @ \cup {PingPacket(n, r.s, x, "PONG") : x \in targets}]

LocalSlaves(n, st) ==
  {x \in Node \ {n} : /\ IsSlave(st, x) /\ st.view[x].slaveof # None
                      /\ st.view[x].slaveof \in {n, st.view[n].slaveof}}
-----------------------------------------------------------------------------
(* Cluster state.                                                            *)

\* clusterUpdateState(): the size of the cluster, and whether it is up.  A
\* master waits after its start (delay "boot") before it looks at all, and
\* after it was in a minority (delay "rejoin") before it turns to ok.
UpdateState(n, st, delay) ==
  LET voters == {x \in Node : IsMaster(st, x) /\ SlotsOf(st, x) # {}}
      reach == {x \in voters : st.view[x].flag = "ok"}
      ok == /\ \A s \in Slot : st.slots[s] # None /\ st.view[st.slots[s]].flag # "fail"
            /\ Cardinality(reach) >= (Cardinality(voters) \div 2) + 1
      waits == IsMaster(st, n) /\ ~st.ok
  IN IF waits /\ delay = "boot" THEN st
     ELSE [st EXCEPT !.size = Cardinality(voters),
                     !.ok = ok /\ ~(waits /\ delay = "rejoin")]

Delays(n, st) == IF ~IsMaster(st, n) \/ st.ok THEN {"none"}
                 ELSE IF st.boots > 0 THEN {"none", "boot", "rejoin"} ELSE {"none", "rejoin"}

\* resetManualFailover()
ResetManualFailover(st) == [st EXCEPT !.mf = [end |-> 0, can |-> FALSE, slave |-> None, moff |-> 0]]

\* clusterNodeRemoveSlave(): a master left without slaves is no target of a
\* migration any more.
RemoveSlave(st, x) ==
  LET old == st.view[x].slaveof
      s1 == [st EXCEPT !.view[x].slaveof = None]
  IN IF old # None /\ SlavesOf(s1, old) = {}
     THEN [s1 EXCEPT !.view[old].migrate_to = FALSE] ELSE s1

\* clusterNodeAddSlave()
AddSlave(st, x, m) == [st EXCEPT !.view[x].slaveof = m, !.view[m].migrate_to = TRUE]

\* clusterSetNodeAsMaster()
SetNodeAsMaster(n, r, x) ==
  IF IsMaster(r.s, x) THEN r
  ELSE LET s1 == RemoveSlave(r.s, x)
       IN Todo([r EXCEPT !.s = [s1 EXCEPT !.view[x].role = "master",
                                  !.view[x].migrate_to = @ \/ (r.s.view[x].slaveof # None /\ x # n)]],
               {"save", "update"})

\* clusterDelSlot(), clusterAddSlot() and clusterNodeSetSlotBit() for the
\* slots in ss: a first slot makes its master a target of migrations when
\* some master has slaves.
GiveSlots(st, ss, x) ==
  LET first == SlotsOf(st, x) = {} /\ ss # {}
      slaves == \E m \in Node : IsMaster(st, m) /\ SlavesOf(st, m) # {}
  IN [st EXCEPT !.slots = [s \in Slot |-> IF s \in ss THEN x ELSE @[s]],
                !.view[x].migrate_to = @ \/ (first /\ slaves)]

\* clusterSetMaster(): this node becomes a slave of m.
SetMaster(n, st, m) ==
  LET s1 == IF IsMaster(st, n)
            THEN [st EXCEPT !.view[n].role = "slave", !.view[n].migrate_to = FALSE] ELSE st
  IN ResetManualFailover(AddSlave(RemoveSlave(s1, n), n, m))

\* clusterUpdateSlotsConfigWith(): a master x claims slots under an epoch.
UpdateSlotsConfigWith(n, r, x, epoch, claimed) ==
  LET st == r.s
      cm == IF IsMaster(st, n) THEN n ELSE st.view[n].slaveof
      lost == {s \in claimed : /\ st.slots[s] # x
                               /\ st.slots[s] = None \/ st.view[st.slots[s]].epoch < epoch}
      s1 == GiveSlots(st, lost, x)
      newmaster == cm # None /\ \E s \in lost : st.slots[s] = cm
      r1 == IF lost = {} THEN r
            ELSE Todo([r EXCEPT !.s = s1], {"save", "update"})
  IN IF x = n THEN r
     ELSE IF newmaster /\ SlotsOf(s1, cm) = {}
     THEN Todo([r1 EXCEPT !.s = SetMaster(n, s1, x)], {"save", "update"})
     ELSE r1
-----------------------------------------------------------------------------
(* Configuration epochs.                                                     *)

\* clusterGetMaxEpoch()
GetMaxEpoch(st) == Max({st.cur} \cup {st.view[x].epoch : x \in Node})

\* clusterBumpConfigEpochWithoutConsensus()
BumpConfigEpochWithoutConsensus(n, r) ==
  IF r.s.view[n].epoch = 0 \/ r.s.view[n].epoch # GetMaxEpoch(r.s)
  THEN Todo([r EXCEPT !.s.cur = @ + 1, !.s.view[n].epoch = r.s.cur + 1], {"save"})
  ELSE r

\* clusterHandleConfigEpochCollision(): the smaller name moves on.
HandleConfigEpochCollision(n, r, x) ==
  IF \/ r.s.view[x].epoch # r.s.view[n].epoch \/ ~IsMaster(r.s, x) \/ ~IsMaster(r.s, n)
     \/ NodeId[x] <= NodeId[n]
  THEN r
  ELSE Todo([r EXCEPT !.s.cur = @ + 1, !.s.view[n].epoch = r.s.cur + 1], {"save"})
-----------------------------------------------------------------------------
(* Failure detection.                                                        *)

\* markNodeAsFailingIfNeeded(), for each of the nodes in reported: one decision
\* does not change what another one looks at.
MarkNodeAsFailingIfNeeded(n, r, reported) ==
  LET failures(x) == Cardinality(r.s.view[x].reports) + (IF IsMaster(r.s, n) THEN 1 ELSE 0)
      failing == {x \in reported : r.s.view[x].flag = "pfail" /\ failures(x) >= Quorum(r.s)}
      r1 == Todo([r EXCEPT !.s.view = [x \in Node |-> IF x \in failing
                                                      THEN [@[x] EXCEPT !.flag = "fail"] ELSE @[x]]],
                 {"save", "update"})
  IN IF failing = {} THEN r
     ELSE IF IsMaster(r.s, n) THEN SendFail(n, r1, failing) ELSE r1

\* clearNodeFailureIfNeeded(): old says that the FAIL state is old enough.
ClearNodeFailureIfNeeded(r, x, old) ==
  IF IsSlave(r.s, x) \/ SlotsOf(r.s, x) = {} \/ old
  THEN Todo([r EXCEPT !.s.view[x].flag = "ok"], {"save", "update"})
  ELSE r

\* clusterProcessGossipSection(): the sender reports every other node as down
\* (clusterNodeAddFailureReport) or up (clusterNodeDelFailureReport).
GossipAbout(r, sender, about, bad) ==
  [r EXCEPT !.s.view = [x \in Node |->
     IF x \notin about THEN @[x]
     ELSE [@[x] EXCEPT !.reports = IF x \in bad THEN @ \cup {sender} ELSE @ \ {sender}]]]

ProcessGossipSection(n, r, sender, bad) ==
  LET about == Node \ {n, sender}
  IN IF ~IsMaster(r.s, sender) THEN r
     ELSE MarkNodeAsFailingIfNeeded(n, GossipAbout(r, sender, about, bad), about \cap bad)
-----------------------------------------------------------------------------
(* clusterProcessPacket().                                                   *)

\* Epochs of a known sender, and the offset of a paused master.
ProcessHeader(n, r, h) ==
  LET s1 == [r.s EXCEPT !.cur = Max({@, h.cur}),
                        !.view[h.from].epoch = Max({@, h.cfg})]
      r1 == IF h.cfg > r.s.view[h.from].epoch THEN Todo([r EXCEPT !.s = s1], {"save"})
            ELSE [r EXCEPT !.s = s1]
  IN IF /\ s1.mf.end # 0 /\ IsSlave(s1, n) /\ s1.view[n].slaveof = h.from
        /\ h.paused /\ s1.mf.moff = 0
     THEN [r1 EXCEPT !.s.mf.moff = h.off] ELSE r1

\* A PONG ends the sender's timeout.
PongClears(r, x, old) ==
  CASE r.s.view[x].flag = "pfail" -> Todo([r EXCEPT !.s.view[x].flag = "ok"], {"save", "update"})
    [] r.s.view[x].flag = "fail" -> ClearNodeFailureIfNeeded(r, x, old)
    [] OTHER -> r

\* Role switch: slave to master or master to slave.
RoleSwitch(n, r, h) ==
  LET x == h.from
      r1 == IF IsSlave(r.s, x) THEN r
            ELSE Todo([r EXCEPT !.s.slots = [s \in Slot |-> IF @[s] = x THEN None ELSE @[s]],
                                !.s.view[x].role = "slave", !.s.view[x].migrate_to = FALSE],
                      {"save", "update"})
  IN IF h.slaveof = None THEN SetNodeAsMaster(n, r, x)
     ELSE IF r1.s.view[x].slaveof = h.slaveof THEN r1
     ELSE Todo([r1 EXCEPT !.s = AddSlave(RemoveSlave(r1.s, x), x, h.slaveof)], {"save"})

\* The slots the sender claims: take those it holds under a newer epoch,
\* and tell it of the first one somebody else holds under a newer epoch.
SlotClaims(n, r, h) ==
  LET x == h.from
      xm == IF IsMaster(r.s, x) THEN x ELSE r.s.view[x].slaveof
      dirty == xm # None /\ SlotsOf(r.s, xm) # h.slots
      r1 == IF IsMaster(r.s, x) /\ dirty THEN UpdateSlotsConfigWith(n, r, x, h.cfg, h.slots) ELSE r
      newer == {s \in h.slots : /\ r1.s.slots[s] \notin {x, None}
                                /\ r1.s.view[r1.s.slots[s]].epoch > h.cfg}
  IN IF dirty /\ newer # {} THEN SendUpdate(n, r1, x, r1.s.slots[Min(newer)]) ELSE r1

\* PING and PONG: the reply is built before the configuration is looked at.
ProcessPing(n, r, p, old) ==
  LET h == p.hdr
      r0 == IF p.type = "PING"
            THEN [r EXCEPT !.out = @ \cup {PingPacket(n, r.s, h.from, "PONG")}] ELSE r
      r1 == IF p.type = "PONG" THEN PongClears(r0, h.from, old) ELSE r0
      r2 == SlotClaims(n, RoleSwitch(n, r1, h), h)
      r3 == IF IsMaster(r2.s, n) /\ IsMaster(r2.s, h.from) /\ h.cfg = r2.s.view[n].epoch
            THEN HandleConfigEpochCollision(n, r2, h.from) ELSE r2
  IN ProcessGossipSection(n, r3, h.from, p.bad)

\* FAIL
ProcessFail(n, r, p) ==
  IF r.s.view[p.about].flag = "fail" \/ p.about = n THEN r
  ELSE Todo([r EXCEPT !.s.view[p.about].flag = "fail"], {"save", "update"})

\* FAILOVER_AUTH_REQUEST: clusterSendFailoverAuthIfNeeded().  recent says
\* that the clock is still near the last vote about the same master.
SendFailoverAuthIfNeeded_AnyEpoch(n, r, p, recent) ==
  LET st == r.s
      x == p.hdr.from
      m == st.view[x].slaveof
  IN IF \/ IsSlave(st, n) \/ SlotsOf(st, n) = {}
        \/ p.hdr.cur < st.cur
        \/ IsMaster(st, x) \/ m = None
        \/ st.view[m].flag # "fail" /\ ~p.force
        \/ \E s \in p.hdr.slots : st.slots[s] # None /\ st.view[st.slots[s]].epoch > p.hdr.cfg
     THEN r
     ELSE [r EXCEPT !.out = @ \cup {Packet(n, st, x, "AUTH_ACK")},
                    !.s.lastVote = st.cur, !.s.view[m].voted = x]

SendFailoverAuthIfNeeded(n, r, p, recent) ==
  LET st == r.s
      x == p.hdr.from
      m == st.view[x].slaveof
  IN IF \/ IsSlave(st, n) \/ SlotsOf(st, n) = {}
        \/ p.hdr.cur < st.cur
        \/ st.lastVote = st.cur
        \/ IsMaster(st, x) \/ m = None
        \/ st.view[m].flag # "fail" /\ ~p.force
        \/ st.view[m].voted # None /\ recent
        \/ \E s \in p.hdr.slots : st.slots[s] # None /\ st.view[st.slots[s]].epoch > p.hdr.cfg
     THEN r
     ELSE [r EXCEPT !.out = @ \cup {Packet(n, st, x, "AUTH_ACK")},
                    !.s.lastVote = st.cur, !.s.view[m].voted = x]

\* FAILOVER_AUTH_ACK
ProcessAuthAck(n, r, p) ==
  IF IsMaster(r.s, p.hdr.from) /\ SlotsOf(r.s, p.hdr.from) # {} /\ p.hdr.cur >= r.s.auth.epoch
  THEN Todo([r EXCEPT !.s.auth.count = @ + 1], {"failover"}) ELSE r

\* MFSTART
ProcessMFStart(n, r, p) ==
  IF r.s.view[p.hdr.from].slaveof # n THEN r
  ELSE [r EXCEPT !.s.mf = [end |-> clock + MFTimeout, can |-> FALSE,
                           slave |-> p.hdr.from, moff |-> 0]]

\* UPDATE
ProcessUpdate(n, r, p) ==
  LET r1 == Todo(SetNodeAsMaster(n, r, p.about), {"save"})
  IN IF r.s.view[p.about].epoch >= p.aepoch THEN r
     ELSE UpdateSlotsConfigWith(n, [r1 EXCEPT !.s.view[p.about].epoch = p.aepoch],
                                p.about, p.aepoch, p.aslots)

ProcessPacket(n, st, p, choice) ==
  LET r == ProcessHeader(n, Begin(st), p.hdr)
  IN CASE p.type \in {"PING", "PONG"} -> ProcessPing(n, r, p, choice)
       [] p.type = "FAIL" -> ProcessFail(n, r, p)
       [] p.type = "AUTH_REQUEST" -> SendFailoverAuthIfNeeded(n, r, p, choice)
       [] p.type = "AUTH_ACK" -> ProcessAuthAck(n, r, p)
       [] p.type = "MFSTART" -> ProcessMFStart(n, r, p)
       [] p.type = "UPDATE" -> ProcessUpdate(n, r, p)
-----------------------------------------------------------------------------
(* The failover of a slave.                                                  *)

\* clusterFailoverReplaceYourMaster()
FailoverReplaceYourMaster(n, r) ==
  LET old == r.s.view[n].slaveof
      r1 == SetNodeAsMaster(n, r, n)
      r2 == [r1 EXCEPT !.s = UpdateState(n, GiveSlots(r1.s, SlotsOf(r1.s, old), n), "none")]
      r3 == BroadcastPong(n, Todo(r2, {"save"}), Node \ {n})
  IN IF IsMaster(r.s, n) \/ old = None THEN r
     ELSE [r3 EXCEPT !.s = ResetManualFailover(@)]

\* clusterHandleSlaveFailover(), the preconditions of an automatic or a
\* manual failover, and the age of this slave's data.
ManualReady(st) == st.mf.end # 0 /\ st.mf.can

FailoverWanted(n, st) ==
  LET m == st.view[n].slaveof
  IN /\ IsSlave(st, n) /\ m # None
     /\ st.view[m].flag = "fail" \/ ManualReady(st)
     /\ SlotsOf(st, m) # {}
     /\ n \in scn.fresh \/ ManualReady(st)

\* ... a new election is scheduled once the last one is old enough.  The
\* delay, which grows with the rank, is the phase "delay".
ScheduleElection(n, r) ==
  BroadcastPong(n, [r EXCEPT !.s.auth = [phase |-> IF r.s.mf.end # 0 THEN "open" ELSE "delay",
                                         sent |-> FALSE, count |-> 0, epoch |-> r.s.auth.epoch]],
                LocalSlaves(n, r.s))

\* ... the votes are asked for in a new epoch (clusterRequestFailoverAuth).
RequestFailoverAuth(n, r) ==
  LET s1 == [r.s EXCEPT !.cur = @ + 1, !.auth.epoch = r.s.cur + 1, !.auth.sent = TRUE]
  IN Todo([r EXCEPT !.s = s1,
             !.out = @ \cup {[hdr |-> BuildMessageHdr(n, s1), to |-> x, type |-> "AUTH_REQUEST",
                              force |-> s1.mf.end # 0] : x \in Node \ {n}}],
          {"save", "update"})

WinElection_OldEpoch(n, r) == FailoverReplaceYourMaster(n, [r EXCEPT !.won = TRUE])

\* ... and counted.
WinElection(n, r) ==
  FailoverReplaceYourMaster(n, [r EXCEPT !.won = TRUE,
                                         !.s.view[n].epoch = Max({@, r.s.auth.epoch})])

HandleSlaveFailover(n, r) ==
  IF ~FailoverWanted(n, r.s) THEN r
  ELSE CASE r.s.auth.phase = "old" -> ScheduleElection(n, r)
         [] r.s.auth.phase \in {"delay", "expired"} -> r
         [] OTHER -> IF ~r.s.auth.sent
                     THEN IF r.s.cur < scn.maxepoch THEN RequestFailoverAuth(n, r) ELSE r
                     ELSE IF r.s.auth.count >= Quorum(r.s) THEN WinElection(n, r)
                     ELSE r

HandleManualFailover_AnyOffset(st) ==
  IF st.mf.end # 0 /\ ~st.mf.can /\ st.mf.moff # 0 THEN [st EXCEPT !.mf.can = TRUE] ELSE st

\* clusterHandleManualFailover()
HandleManualFailover(st) ==
  IF st.mf.end # 0 /\ ~st.mf.can /\ st.mf.moff # 0 /\ st.mf.moff = st.off
  THEN [st EXCEPT !.mf.can = TRUE] ELSE st

\* manualFailoverCheckTimeout()
ManualFailoverCheckTimeout(st) ==
  IF st.mf.end # 0 /\ st.mf.end < clock THEN ResetManualFailover(st) ELSE st

\* clusterCountNonFailingSlaves()
OkSlaves(st, m) == {x \in SlavesOf(st, m) : st.view[x].flag # "fail"}

\* clusterHandleSlaveMigration(): the slave with the smallest name among
\* those of the best covered masters moves to an orphaned master.
Orphaned(st, m) == /\ IsMaster(st, m) /\ st.view[m].flag # "fail"
                   /\ st.view[m].migrate_to /\ OkSlaves(st, m) = {}

HandleSlaveMigration(n, st, max_slaves) ==
  LET mine == {x \in SlavesOf(st, st.view[n].slaveof) : st.view[x].flag = "ok"}
      cand == {n} \cup UNION {SlavesOf(st, m) : m \in {m \in Node : IsMaster(st, m)
                                              /\ Cardinality(OkSlaves(st, m)) = max_slaves}}
      target == {m \in Node : Orphaned(st, m) /\ SlotsOf(st, m) # {}}
  IN IF \/ ~st.ok \/ st.view[n].slaveof = None
        \/ Cardinality(mine) <= scn.barrier
        \/ \E x \in cand : NodeId[x] < NodeId[n]
     THEN {}
     ELSE {SetMaster(n, st, m) : m \in target}
-----------------------------------------------------------------------------
(* The event loop.                                                           *)

\* clusterBeforeSleep(): the failover a vote may have decided, the state, and
\* nodes.conf.  What leaves the node then enters the network.
BeforeSleep(n, r, delay) ==
  LET r1 == IF "failover" \in r.todo THEN HandleSlaveFailover(n, r) ELSE r
  IN IF "update" \in r1.todo THEN [r1 EXCEPT !.s = UpdateState(n, @, delay)] ELSE r1

\* What clusterSaveConfig() writes of a node's state.
Saved(st) == [cur |-> st.cur, lastVote |-> st.lastVote, slots |-> st.slots,
              view |-> [x \in Node |-> [st.view[x] EXCEPT !.reports = {}, !.voted = None,
                                                          !.migrate_to = FALSE]]]

Pings(S) == {p \in S : p.type \in {"PING", "PONG"}}

\* A PING or PONG over the bound is one the link lost.
Commit(n, r, rest) ==
  LET gossip == Pings(r.out)
      room == MaxPings - Cardinality(Pings(rest))
      S == IF Cardinality(gossip) <= room THEN {gossip}
           ELSE {G \in SUBSET gossip : Cardinality(G) = room}
  IN /\ nd' = [nd EXCEPT ![n] = r.s]
     /\ \E G \in S : net' = {p \in rest \cup (r.out \ gossip) \cup G : p.to \in scn.alive}
     /\ disk' = IF "save" \in r.todo /\ n \in scn.crash
                THEN [disk EXCEPT ![n] = Saved(r.s)] ELSE disk
     /\ granted' = granted \cup {<<n, p.hdr.cur, p.to>> : p \in {q \in r.out : q.type = "AUTH_ACK"}}
     /\ won' = IF r.won THEN won \cup {<<r.s.auth.epoch, n>>} ELSE won

\* Whether a FAIL state is old, or a vote recent, where the packet asks.  A
\* slave asks again after four node timeouts, a vote is recent for two.
ClockSays(n, p) ==
  CASE p.type = "PONG" -> IF nd[n].view[p.hdr.from].flag = "fail" THEN BOOLEAN ELSE {TRUE}
    [] p.type = "AUTH_REQUEST" -> IF \E m \in Node : nd[n].view[m].voted \notin {None, p.hdr.from}
                                  THEN BOOLEAN ELSE {FALSE}
    [] OTHER -> {TRUE}

\* clusterReadHandler(): one packet is read and processed.
ReceivePacket(n, type) ==
  \E p \in {q \in net : q.to = n /\ q.type = type}, delay \in Delays(n, nd[n]) :
    \E choice \in ClockSays(n, p) :
      LET r == ProcessPacket(n, nd[n], p, choice)
      IN /\ r.s.cur <= scn.maxepoch
         /\ Commit(n, BeforeSleep(n, r, delay), net \ {p})
         /\ UNCHANGED <<scn, clock>>

\* clusterCron(): pongs that are too late, PINGs, and the failover.
CronResults(n, late, pinged, delay) ==
  LET st == nd[n]
      s1 == [st EXCEPT !.view = [x \in Node |-> IF x \in late /\ @[x].flag = "ok"
                                                THEN [@[x] EXCEPT !.flag = "pfail"] ELSE @[x]]]
      s2 == ManualFailoverCheckTimeout(s1)
      r0 == [Begin(s2) EXCEPT !.out = {PingPacket(n, s1, x, "PING") : x \in pinged}]
      r1 == IF IsSlave(s2, n)
            THEN HandleSlaveFailover(n, [r0 EXCEPT !.s = HandleManualFailover(s2)]) ELSE r0
      masters == {x \in Node \ {n} : IsMaster(s2, x) /\ s2.view[x].flag # "fail"}
      most == Max({0} \cup {Cardinality(OkSlaves(s2, x)) : x \in masters})
      orphans == {x \in masters : Orphaned(s2, x) /\ SlotsOf(s2, x) # {}}
      moved == IF /\ op("migrate") /\ IsSlave(r1.s, n) /\ orphans # {} /\ most >= 2
                  /\ r1.s.view[n].slaveof \in masters
                  /\ Cardinality(OkSlaves(s2, r1.s.view[n].slaveof)) = most
               THEN HandleSlaveMigration(n, r1.s, most) ELSE {}
      upd == s1 # st \/ ~st.ok
  IN {BeforeSleep(n, [r1 EXCEPT !.s = IF upd THEN UpdateState(n, s3, delay) ELSE s3], delay) :
        s3 \in {r1.s} \cup moved}

ClusterCron(n, late, pinged) ==
  /\ late \subseteq {x \in scn.late : nd[n].view[x].flag = "ok"}
  /\ pinged \subseteq scn.pings[n]
  /\ pinged # {} => Pings(net) = {}
  /\ \E delay \in Delays(n, nd[n]) : \E r \in CronResults(n, late, pinged, delay) : Commit(n, r, net)
  /\ UNCHANGED <<scn, clock>>

\* The election delay, the timeout and the retry time of an election pass;
\* the last two only while the bound on epochs leaves room for a retry, and
\* never before the cron, which runs ten times a second, asked for votes.
\* The 500 ms of the delay are there to let FAIL reach the voters; "recover"
\* takes it that this is enough.
AuthTimeRuns(n) ==
  /\ nd[n].auth.phase # "old"
  /\ nd[n].auth.phase = "delay" \/ nd[n].cur < scn.maxepoch
  /\ nd[n].auth.phase = "open" => nd[n].auth.sent
  /\ nd[n].auth.phase = "delay" /\ op("recover") =>
       \A m \in scn.alive : nd[m].view[nd[n].view[n].slaveof].flag = "fail"

AuthTimePasses(n) ==
  /\ AuthTimeRuns(n)
  /\ nd' = [nd EXCEPT ![n].auth.phase = CASE @ = "delay" -> "open" [] @ = "open" -> "expired"
                                          [] OTHER -> "old"]
  /\ UNCHANGED <<scn, net, disk, clock, granted, won>>

\* freeClusterLink(): a packet is lost with the link it was queued on.
LoseLink ==
  /\ op("loss")
  /\ \E p \in net : net' = net \ {p}
  /\ UNCHANGED <<scn, nd, disk, clock, granted, won>>

\* clusterInit() and clusterLoadConfig() after the process died.
LoadConfig(n) ==
  LET d == disk[n]
  IN [cur |-> Max({d.cur} \cup {d.view[x].epoch : x \in Node}), lastVote |-> d.lastVote,
      view |-> [x \in Node |-> [d.view[x] EXCEPT !.migrate_to = \E y \in Node : d.view[y].slaveof = x]],
      slots |-> d.slots, size |-> 1, ok |-> FALSE, off |-> nd[n].off, boots |-> nd[n].boots + 1,
      auth |-> [phase |-> "old", sent |-> FALSE, count |-> 0, epoch |-> 0],
      mf |-> [end |-> 0, can |-> FALSE, slave |-> None, moff |-> 0]]

Restart(n) ==
  /\ n \in scn.crash
  /\ nd[n].boots = 0
  /\ nd' = [nd EXCEPT ![n] = LoadConfig(n)]
  /\ net' = {p \in net : p.to # n}
  /\ UNCHANGED <<scn, disk, clock, granted, won>>
-----------------------------------------------------------------------------
(* Commands of the administrator, and the data.                              *)

\* CLUSTER FAILOVER [FORCE | TAKEOVER]
FailoverCommand(n, how) ==
  LET st == nd[n]
      m == st.view[n].slaveof
      s1 == [st EXCEPT !.mf = [end |-> clock + MFTimeout, can |-> how = "force",
                               slave |-> None, moff |-> 0]]
      r == Begin(s1)
  IN /\ op(how)
     /\ IsSlave(st, n) /\ m # None
     /\ how = "manual" => st.view[m].flag # "fail"
     /\ how = "takeover" => st.cur < scn.maxepoch
     /\ Commit(n, BeforeSleep(n, CASE how = "manual" -> [r EXCEPT !.out = {Packet(n, s1, m, "MFSTART")}]
                                   [] how = "force" -> r
                                   [] OTHER -> FailoverReplaceYourMaster(n, BumpConfigEpochWithoutConsensus(n, r)),
                            "none"), net)
     /\ UNCHANGED <<scn, clock>>

\* CLUSTER REPLICATE
ReplicateCommand(n, m) ==
  LET st == nd[n]
  IN /\ op("replicate")
     /\ m # n /\ IsMaster(st, m)
     /\ IsMaster(st, n) => SlotsOf(st, n) = {}
     /\ Commit(n, BeforeSleep(n, Todo(Begin(SetMaster(n, st, m)), {"update", "save"}), "none"), net)
     /\ UNCHANGED <<scn, clock>>

\* CLUSTER BUMPEPOCH
BumpEpochCommand(n) ==
  /\ op("bump")
  /\ nd[n].cur < scn.maxepoch
  /\ Commit(n, BeforeSleep(n, BumpConfigEpochWithoutConsensus(n, Begin(nd[n])), "none"), net)
  /\ UNCHANGED <<scn, clock>>

\* A client writes to a master that is not paused (processInputBuffer() stops
\* at clientsArePaused()), and a slave takes the stream of its master.
ClientWrite(n) ==
  /\ op("write") /\ IsMaster(nd[n], n) /\ nd[n].mf.end = 0 /\ SlotsOf(nd[n], n) # {}
  /\ nd[n].off < 2
  /\ nd' = [nd EXCEPT ![n].off = @ + 1]
  /\ UNCHANGED <<scn, net, disk, clock, granted, won>>

ReplicationStream(n) ==
  /\ IsSlave(nd[n], n) /\ nd[n].view[n].slaveof # None
  /\ nd[n].off # nd[nd[n].view[n].slaveof].off
  /\ nd' = [nd EXCEPT ![n].off = nd[nd[n].view[n].slaveof].off]
  /\ UNCHANGED <<scn, net, disk, clock, granted, won>>

\* The cron runs ten times a second: no deadline is left overdue by a tick.
Tick ==
  /\ clock < scn.ticks
  /\ \A n \in scn.alive : nd[n].mf.end # 0 => nd[n].mf.end >= clock
  /\ \E n \in scn.alive : nd[n].mf.end # 0
  /\ clock' = clock + 1
  /\ UNCHANGED <<scn, nd, net, disk, granted, won>>
-----------------------------------------------------------------------------
InitNode(n, sc) ==
  LET st == [cur |-> Max({sc.epoch[x] : x \in Node}), lastVote |-> 0,
             view |-> [x \in Node |->
               [role |-> IF sc.master[x] = None THEN "master" ELSE "slave", slaveof |-> sc.master[x],
                epoch |-> sc.epoch[x], flag |-> IF x \in sc.failed THEN "fail" ELSE "ok", reports |-> {}, voted |-> None,
                migrate_to |-> x \in sc.hadslaves]],
             slots |-> sc.owner, size |-> 0, ok |-> TRUE, off |-> 1, boots |-> 0,
             auth |-> [phase |-> "old", sent |-> FALSE, count |-> 0, epoch |-> 0],
             mf |-> [end |-> 0, can |-> FALSE, slave |-> None, moff |-> 0]]
  IN UpdateState(n, st, "none")

Init ==
  /\ scn \in Scenario
  /\ nd = [n \in Node |-> InitNode(n, scn)]
  /\ net = {}
  /\ disk = [n \in scn.crash |-> Saved(nd[n])]
  /\ clock = 1
  /\ granted = {} /\ won = {}

Types == {"PING", "PONG", "FAIL", "AUTH_REQUEST", "AUTH_ACK", "MFSTART", "UPDATE"}

Next ==
  \/ \E n \in scn.alive :
       \/ \E type \in Types : ReceivePacket(n, type)
       \/ \E late \in SUBSET scn.late, x \in scn.pings[n] \cup {None} : ClusterCron(n, late, {x} \ {None})
       \/ AuthTimePasses(n)
       \/ Restart(n)
       \/ ClientWrite(n)
       \/ ReplicationStream(n)
       \/ BumpEpochCommand(n)
       \/ \E how \in {"manual", "force", "takeover"} : FailoverCommand(n, how)
       \/ \E m \in Node : ReplicateCommand(n, m)
  \/ LoseLink
  \/ Tick

Spec == Init /\ [][Next]_vars

\* The cron runs ten times a second and pings every node that has been quiet
\* for half the node timeout; TCP delivers what stays on a link; time passes.
\* Each is stated by the states it leads to again and again: nothing left to
\* deliver, nothing left for a cron to do, a ping sent (for the pairs FairPing
\* names) and no election timer left to run.
Deliverable(p) == ProcessPacket(p.to, nd[p.to], p, TRUE).s.cur <= scn.maxepoch
Delivered(packets) == \A p \in packets : ~Deliverable(p)
CronIdle == \A n \in scn.alive :
              LET late == {x \in scn.late : nd[n].view[x].flag = "ok"}
              IN \A delay \in Delays(n, nd[n]) : \A r \in CronResults(n, late, {}, delay) :
                   r.s = nd[n] /\ r.out = {}
Fairness ==
  /\ []<>Delivered(Pings(net))
  /\ []<>Delivered(net \ Pings(net))
  /\ []<>CronIdle
  /\ \A n \in Node : \A x \in FairPing[n] :
       []<>(n \in scn.alive /\ x \in scn.pings[n] \cap scn.alive =>
             \E p \in Pings(net) : p.to = x /\ p.hdr.from = n)
  /\ []<>(\A n \in scn.alive : ~AuthTimeRuns(n))

FairSpec == Spec /\ Fairness
-----------------------------------------------------------------------------
(* Properties.                                                               *)

\* A node that no longer runs (not in scn.alive) stays as it was.
TypeOK ==
  /\ \A n \in Node : /\ nd[n].cur \in 0..(scn.maxepoch + 1) /\ nd[n].lastVote \in 0..nd[n].cur
                     /\ nd[n].slots \in [Slot -> Node \cup {None}]
                     /\ nd[n].auth.epoch <= nd[n].cur
                     /\ \A x \in Node : nd[n].view[x].epoch <= nd[n].cur
  /\ Cardinality(Pings(net)) <= MaxPings

\* clusterSendFailoverAuthIfNeeded(): a master votes for one slave per epoch, as
\* long as it keeps running: no scenario with an election restarts a voter, which
\* could vote again in the same epoch, as lastVoteEpoch is assigned without asking
\* for the configuration to be saved.
OneVotePerEpoch ==
  \A g, h \in granted : g[1] = h[1] /\ g[2] = h[2] => g[3] = h[3]

\* clusterHandleSlaveFailover(): no two slaves win the election of one epoch.
OneWinnerPerEpoch ==
  \A u, v \in won : u[1] = v[1] => u[2] = v[2]

\* Two nodes that both hold themselves for the owner of a slot do so under
\* different epochs, so that clusterUpdateSlotsConfigWith() can decide, unless
\* epochs were made without a vote.
ClaimsOrdered ==
  ~op("takeover") => \A m, n \in scn.alive, s \in Slot :
    m # n /\ nd[m].slots[s] = m /\ nd[n].slots[s] = n => nd[m].view[m].epoch # nd[n].view[n].epoch

\* A slave takes over its master's slots under a newer epoch than the one
\* its master held them under, unless it is told to take over without a vote.
Promoted(n) == IsSlave(nd[n], n) /\ IsMaster(nd[n], n)'
PromotionIsNewer ==
  [][\A n \in Node : Promoted(n) /\ ~op("takeover") =>
       nd'[n].view[n].epoch > nd[n].view[nd[n].view[n].slaveof].epoch]_vars

\* markNodeAsFailingIfNeeded(): who turns a node to FAIL has the word of a
\* majority of the masters that serve slots.
Voters == {x \in Node : scn.master[x] = None /\ \E s \in Slot : scn.owner[s] = x}
FailNeedsMajority ==
  [][\A n, x \in Node :
       /\ nd[n].view[x].flag # "fail" /\ nd'[n].view[x].flag = "fail"
       /\ ~\E p \in net : p.to = n /\ p.type = "FAIL" /\ p.about = x
       => 2 * Cardinality(nd'[n].view[x].reports \cup ({n} \cap Voters)) > Cardinality(Voters)]_vars

\* A manual failover that was not forced promotes a slave that has all of
\* its master's writes.
ManualNoLoss ==
  [][\A n \in Node : Promoted(n) /\ nd[n].mf.moff # 0 =>
       nd[n].off = nd[nd[n].view[n].slaveof].off]_vars

\* clusterHandleSlaveMigration(): masters that have a slave at the start are
\* not left without any by slaves that move to another master.
MigrationKeepsOne ==
  op("migrate") =>
    \A m \in Node : (\E x \in scn.alive : scn.master[x] = m) =>
                    \E x \in scn.alive : nd[x].view[x].slaveof = m

\* clusterHandleConfigEpochCollision(): masters that start with the same
\* epoch end with different ones.
EpochsSettle ==
  op("settle") => <>[](\A m, n \in scn.alive : m # n => nd[m].view[m].epoch # nd[n].view[n].epoch)

\* A master that stops is replaced: all the nodes that run come to agree that
\* its slots are served by its slave.
EventuallyServed ==
  op("recover") =>
    <>[](\A n \in scn.alive, s \in Slot : scn.owner[s] \notin scn.alive =>
           nd[n].slots[s] \in scn.alive /\ scn.master[nd[n].slots[s]] = scn.owner[s])

\* CLUSTER FAILOVER TAKEOVER and BUMPEPOCH make epochs without a vote, which
\* may collide; the nodes still come to agree on the owner of every slot.
SlotsAgree ==
  op("takeover") => <>[](\A m, n \in scn.alive, s \in Slot : nd[m].slots[s] = nd[n].slots[s])

====

----------------------------- MODULE MC_Cluster -----------------------------
(* Redis Cluster: failovers and the moving of slots, one of them at a time,  *)
(* as the variable part says, so that the state spaces add up.               *)
EXTENDS ClusterFailover, ClusterSlots

CONSTANTS Parts, m1, m2, m3, slave1, slave2, node1, node2, node3, key1, key2, user1, user2

VARIABLE part

-----------------------------------------------------------------------------
(* Failovers *)

MCId == (m1 :> 3) @@ (m2 :> 4) @@ (m3 :> 5) @@ (slave1 :> 1) @@ (slave2 :> 2)
MCFairPing == [n \in Node |-> CASE n = m1 -> {m2, m3, slave1} [] n = m2 -> {m3, slave1} [] n = m3 -> {slave1} [] OTHER -> {}]
Std == [ops |-> {}, alive |-> Node, late |-> {}, crash |-> {}, barrier |-> 1, failed |-> {}, ticks |-> 1,
        master |-> [n \in Node |-> IF n \in {slave1, slave2} THEN m1 ELSE None],
        hadslaves |-> {m1},
        owner |-> (1 :> m1) @@ (2 :> m2) @@ (3 :> m3),
        epoch |-> (m1 :> 1) @@ (m2 :> 2) @@ (m3 :> 3) @@ (slave1 :> 1) @@ (slave2 :> 1),
        maxepoch |-> 4, fresh |-> Node, pings |-> [n \in Node |-> {}]]
\* m1 stopped; its two slaves ask m2 and m3.
Election == [Std EXCEPT !.alive = Node \ {m1}, !.failed = {m1}]
\* m1 stops answering: m2 and m3 must agree on it and slave1 replace it.
Recover == [Std EXCEPT !.alive = {m2, m3, slave1}, !.late = {m1}, !.ops = {"recover"},
             !.pings = [n \in Node |-> CASE n = m2 -> {m3, slave1} [] n = m3 -> {m2, slave1} [] OTHER -> {}]]
\* The administrator asks slave1 to replace m1, which is up.
Manual == [Std EXCEPT !.alive = {m1, slave1}, !.ops = {"manual", "write"}, !.ticks = 2,
             !.owner = [s \in Slot |-> m1],
             !.pings = [n \in Node |-> IF n = m1 THEN {slave1} ELSE {}]]
\* A manual failover that runs out of time.
Expire == [Manual EXCEPT !.ops = {"manual", "loss"}, !.ticks = 3]
\* A new cluster: every epoch is zero, and a node restarts.
Collide == [Std EXCEPT !.crash = {m2}, !.alive = {m1, m2, m3}, !.epoch = [n \in Node |-> 0], !.ops = {"settle"},
             !.pings = [n \in Node |-> {m1, m2, m3} \ {n}]]
\* m2 lost its slave; one of the two of m1 should come over.
Migrate == [Std EXCEPT !.alive = {m1, slave1, slave2}, !.ops = {"migrate"}, !.hadslaves = {m1, m2},
             !.pings = [n \in Node |-> IF n = m1 THEN {} ELSE {m1}]]
\* slave1 takes over without asking.
Takeover == [Std EXCEPT !.alive = {m1, slave1}, !.ops = {"takeover", "bump"}, !.maxepoch = 5,
             !.pings = [n \in Node |-> {m1, slave1} \ {n}]]
\* slave1 is told to replicate another master while it fails over.
Repoint == [Manual EXCEPT !.ops = {"manual", "replicate"}, !.ticks = 1, !.master[m3] = m1]
\* Nobody runs: the slots are looked at.
Stopped == [Std EXCEPT !.alive = {}]
FailoverScenarios == {Election, Recover, Manual, Expire, Collide, Migrate, Takeover, Repoint, Stopped}

-----------------------------------------------------------------------------
(* Moving slots *)

Req(kind, ks) == [kind |-> kind, ks |-> ks]
SlotBase ==
  [owner |-> node1, cur |-> 3, ep |-> [n \in SNode |-> IF n = node1 THEN 3 ELSE IF n = node2 THEN 2 ELSE 1],
   there |-> {key1}, moves |-> <<[from |-> node1, to |-> node2]>>, order |-> <<node1, node2, node3>>, fix |-> FALSE,
   clients |-> {user1}, reqs |-> {Req("set", {key1}), Req("get", {key1, key2})}, entry |-> {node1, node3}, msgs |-> 0, settled |-> TRUE, adders |-> {},
   bud |-> [req |-> 2, timeout |-> 0, reset |-> 0, die |-> 0, slots |-> 0, stable |-> 0, msg |-> 0, restart |-> 0]]

\* Two clients, one and two keys.
MoveScenario ==
  [SlotBase EXCEPT !.clients = {user1, user2},
     !.reqs = {Req("set", {key1}), Req("set", {key2}), Req("get", {key1, key2}), Req("del", {key1})}]
\* The slot goes there and back, with headers between the nodes.
BackScenario ==
  [SlotBase EXCEPT !.moves = <<[from |-> node1, to |-> node2], [from |-> node2, to |-> node1]>>,
     !.order = <<node2, node1, node3>>, !.msgs = 1, !.bud = [@ EXCEPT !.req = 1, !.msg = 3]]
\* Headers, and the order in which the third node hears first.
HeaderScenario ==
  [SlotBase EXCEPT !.order = <<node3, node1, node2>>, !.msgs = 2, !.bud = [@ EXCEPT !.req = 1, !.msg = 3]]
\* A blocking pop.
PopScenario ==
  [SlotBase EXCEPT !.there = {}, !.clients = {user1, user2},
     !.reqs = {Req("pop", {key1}), Req("set", {key1})}, !.bud = [@ EXCEPT !.req = 3]]
\* redis-trib is interrupted, a node restarts.
DiesScenario ==
  [SlotBase EXCEPT !.there = {key1, key2}, !.bud = [@ EXCEPT !.req = 1, !.die = 1, !.restart = 2, !.msg = 1],
                   !.msgs = 1]
\* The slot is unassigned and assigned again.
AssignScenario ==
  [SlotBase EXCEPT !.adders = {node1}, !.moves = <<>>, !.msgs = 1, !.entry = {node3},
     !.bud = [@ EXCEPT !.slots = 2, !.msg = 3]]
\* The connection of a MIGRATE times out while clients write and delete.
TimeoutScenario ==
  [SlotBase EXCEPT !.there = {key1, key2}, !.entry = {node1},
     !.reqs = {Req("set", {key1}), Req("get", {key1, key2}), Req("del", {key1})},
     !.bud = [@ EXCEPT !.timeout = 1, !.req = 3]]
\* It is reset, with and without the fix option.
ResetScenario == [TimeoutScenario EXCEPT !.bud = [@ EXCEPT !.timeout = 0, !.reset = 2, !.req = 1]]
FixScenario == [TimeoutScenario EXCEPT !.fix = TRUE, !.bud = [@ EXCEPT !.reset = 1, !.req = 2]]
\* redis-trib is interrupted and the slot, which has no keys, closed by hand.
CloseScenario ==
  [SlotBase EXCEPT !.there = {}, !.reqs = {Req("get", {key1})},
     !.bud = [@ EXCEPT !.die = 1, !.stable = 1]]
\* The slot stays where it is: failovers are looked at.
StillScenario == [SlotBase EXCEPT !.moves = <<>>, !.reqs = {}]
SlotScenarios == {MoveScenario, BackScenario, HeaderScenario, PopScenario, DiesScenario,
                  AssignScenario, TimeoutScenario, ResetScenario, FixScenario, CloseScenario, StillScenario}

-----------------------------------------------------------------------------
ClusterInit ==
  /\ part \in Parts
  /\ Init /\ MInit
  /\ (part = "failover") = (scn # Stopped)
  /\ (part = "slots") = (mscen # StillScenario)

ClusterNext ==
  \/ part = "failover" /\ Next /\ UNCHANGED <<part, mvars>>
  \/ part = "slots" /\ MNext /\ UNCHANGED <<part, vars>>

\* MFairness, for the behaviours that are about slots.
SlotsFairness ==
  /\ WF_mvars(part = "slots" /\ Trib)
  /\ WF_mvars(part = "slots" /\ RestoreCommand)
  /\ WF_mvars(part = "slots" /\ MigrateReply)
  /\ \A c \in Client : /\ WF_mvars(part = "slots" /\ Serve(c))
                       /\ WF_mvars(part = "slots" /\ RedirectBlocked(c))

ClusterSpec ==
  /\ ClusterInit /\ [][ClusterNext]_<<part, vars, mvars>>
  /\ Fairness /\ SlotsFairness

\* clusterProcessPacket and clusterCron keep the nodes' tables in order: no
\* epoch runs ahead of currentEpoch, two claims to a slot can be told apart,
\* and migration leaves no master without its slave.
TablesSound == part = "failover" => TypeOK /\ ClaimsOrdered /\ MigrationKeepsOne

\* While a slot moves (MIGRATE, SETSLOT, redis-trib's move_slot) every key is
\* somewhere, and whoever serves it has its last value.  Not promised for the
\* keys of a MIGRATE whose connection failed, on its target (ServesTruth), and,
\* under the fix option, at all (NothingLost).
MovesSound == part = "slots" => ServesTruth /\ NothingLost

\* What the steps of a failover may not do: call a node failing without a
\* majority, promote under an old epoch, or promote, by hand, a slave that
\* lacks writes (markNodeAsFailingIfNeeded, clusterFailoverReplaceYourMaster).
FailoverSteps == FailNeedsMajority /\ PromotionIsNewer /\ ManualNoLoss

\* The cluster comes to rest: epochs differ, slots are served again and by one
\* node for all, requests are answered and blocked clients follow their keys.
ClusterHeals == EpochsSettle /\ EventuallyServed /\ SlotsAgree /\ Answered /\ BlockedFollow
=============================================================================

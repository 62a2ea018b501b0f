------------------------------ MODULE Sentinel ------------------------------
(***************************************************************************)
(* Redis Sentinel (redis-4.0.6/src/sentinel.c): several Sentinels watch    *)
(* one master and its slaves, agree that the master is down, elect one of  *)
(* themselves per epoch, and the elected one promotes a slave.             *)
(*                                                                         *)
(* Each Sentinel is a record st[s] of the fields of sentinelState and of   *)
(* the one sentinelRedisInstance it keeps for the master.  A C function    *)
(* that updates that structure is an operator from record to record; an    *)
(* event-loop callback (timer, command, reply, Pub/Sub message) is one     *)
(* action.  Clocks are abstracted: "late" says that the timeout the        *)
(* handler looks at has expired.                                           *)
(***************************************************************************)
EXTENDS Integers, FiniteSets, Sequences

CONSTANTS
  Sentinel,       \* the Sentinels, all configured for the same master
  Inst,           \* addresses of the Redis servers
  Master0,        \* the configured master
  RunId,          \* instance -> rank of its run id, for the last tie break
  Priority,       \* instance -> slave_priority reported by INFO
  Offset,         \* instance -> slave_repl_offset reported by INFO
  Quorum,         \* sentinel monitor <name> <ip> <port> <quorum>
  ParallelSyncs,  \* parallel-syncs
  MaxEpoch,       \* bound: no failover is started beyond this epoch
  MaxCmds,        \* bound: SLAVEOFs queued on one link
  MaxRestarts,    \* bound: process restarts
  Crashing,       \* bound: the Sentinels that may restart
  Connected,      \* pairs {s, t} of Sentinels the network lets talk
  Active,         \* the Sentinels whose timer runs (the others only answer)
  Ops             \* the administrative, fault and recovery actions switched on

Nil == "nil"          \* a NULL runid, address or promoted_slave
NoOne == "no one"     \* SLAVEOF NO ONE, or the role "master" in INFO

ASSUME SentinelAssumption ==
  /\ IsFiniteSet(Sentinel) /\ Nil \notin Sentinel
  /\ Master0 \in Inst
  /\ Quorum \in Nat \ {0}
  /\ ParallelSyncs \in Nat \ {0}
  /\ \A s \in Sentinel : {s} \notin Connected

VARIABLES
  st,        \* Sentinel -> its in-memory state
  disk,      \* Sentinel -> its configuration file
  link,      \* Sentinel -> peer -> the is-master-down-by-addr exchange under way
  cmds,      \* Sentinel -> instance -> SLAVEOF commands queued on the link
  real,      \* instance -> the master it replicates, or NoOne
  restarts,  \* restarts so far
  ballots,   \* history: <<voter, epoch, candidate>>
  elected    \* history: elections won without SENTINEL FAILOVER

vars == <<st, disk, link, cmds, real, restarts, ballots, elected>>

FState == {"none", "wait_start", "select_slave", "send_slaveof_noone",
           "wait_promotion", "reconf_slaves", "update_config"}
SlaveFlags == {"S_DOWN", "PROMOTED", "RECONF_SENT", "RECONF_INPROG", "RECONF_DONE"}
Idle == [kind |-> "idle"]

(* A peer instance as createSentinelRedisInstance leaves it. *)
NewPeer == [down |-> FALSE, leader |-> Nil, leader_epoch |-> 0]

(* The master instance of a Sentinel that starts on configuration d. *)
LoadConfig(d) ==
  [epoch |-> d.epoch, tilt |-> FALSE, addr |-> d.addr,
   config_epoch |-> d.config_epoch, leader |-> Nil,
   leader_epoch |-> d.leader_epoch, failover_epoch |-> 0, fstate |-> "none",
   flags |-> {}, role |-> "master", promoted |-> Nil,
   slaves |-> [i \in d.slaves |-> {}],
   peers |-> [p \in d.peers |-> NewPeer]]

GetCurrentMasterAddress(S) ==
  IF /\ "IN_PROGRESS" \in S.flags
     /\ S.promoted # Nil
     /\ S.fstate \in {"reconf_slaves", "update_config"}
  THEN S.promoted
  ELSE S.addr

(* What the configuration file holds after a rewrite: the promoted slave's *)
(* line is written with the address of the old master.                     *)
RewriteConfig(S) ==
  LET cur == GetCurrentMasterAddress(S)
  IN [epoch |-> S.epoch, addr |-> cur, config_epoch |-> S.config_epoch,
      leader_epoch |-> S.leader_epoch,
      slaves |-> {IF i = cur THEN S.addr ELSE i : i \in DOMAIN S.slaves},
      peers |-> DOMAIN S.peers]

(* Everybody has found everybody; the master has just stopped answering. *)
Start(s) == [epoch |-> 0, addr |-> Master0, config_epoch |-> 0,
             leader_epoch |-> 0, slaves |-> Inst \ {Master0},
             peers |-> Sentinel \ {s}]
-----------------------------------------------------------------------------
(* Votes.                                                                  *)

(* Mutant: a second candidate of the same epoch gets the vote too. *)
VoteLeader_Again(S, reqEpoch, runid) ==
  LET e == IF reqEpoch > S.epoch THEN reqEpoch ELSE S.epoch
  IN IF S.leader_epoch <= reqEpoch /\ e <= reqEpoch
     THEN [S EXCEPT !.epoch = e, !.leader = runid, !.leader_epoch = e]
     ELSE [S EXCEPT !.epoch = e]

(* One vote per epoch: the vote already cast is kept. *)
VoteLeader(S, reqEpoch, runid) ==
  LET e == IF reqEpoch > S.epoch THEN reqEpoch ELSE S.epoch
  IN IF S.leader_epoch < reqEpoch /\ e <= reqEpoch
     THEN [S EXCEPT !.epoch = e, !.leader = runid, !.leader_epoch = e]
     ELSE [S EXCEPT !.epoch = e]

(* The votes known to S for its current epoch, one counter per candidate.  *)
LeaderVotes(S) ==
  [c \in Sentinel |->
     Cardinality({p \in DOMAIN S.peers : S.peers[p].leader = c
                                     /\ S.peers[p].leader_epoch = S.epoch})]

(* Half of the known Sentinels, this one counted, plus one. *)
Majority(S) == ((Cardinality(DOMAIN S.peers) + 1) \div 2) + 1

(* w leads after the others are counted, or is Nil; then Sentinel s casts   *)
(* (or recalls) its own vote.                                              *)
LeaderOutcome(s, S, epoch, w) ==
  LET votes == LeaderVotes(S)
      V == VoteLeader(S, epoch, IF w = Nil THEN s ELSE w)
      mine == V.leader # Nil /\ V.leader_epoch = epoch
      tally == [c \in Sentinel |->
                  votes[c] + IF mine /\ V.leader = c THEN 1 ELSE 0]
      top == IF w = Nil THEN 0 ELSE votes[w]
      win == IF mine /\ tally[V.leader] > top THEN V.leader ELSE w
  IN [st |-> V,
      winner |-> IF win # Nil /\ tally[win] >= Majority(S) /\ tally[win] >= Quorum
                 THEN win ELSE Nil]

(* The set of outcomes [st, winner]: ties are broken by the order of a     *)
(* hash table.                                                             *)
GetLeader(s, S, epoch) ==
  LET votes == LeaderVotes(S)
      best == {c \in Sentinel : votes[c] > 0
                                /\ \A d \in Sentinel : votes[c] >= votes[d]}
  IN {LeaderOutcome(s, S, epoch, w) : w \in IF best = {} THEN {Nil} ELSE best}
-----------------------------------------------------------------------------
(* The failover state machine.                                             *)

StartFailover(S) ==
  [S EXCEPT !.fstate = "wait_start", !.flags = @ \cup {"IN_PROGRESS"},
            !.epoch = @ + 1, !.failover_epoch = S.epoch + 1]

ClearFlag(S, i, f) == [S EXCEPT !.slaves[i] = @ \ f]

(* Mutant: the flag of the promoted slave stays. *)
AbortFailover_KeepsFlag(S) ==
  [S EXCEPT !.flags = @ \ {"IN_PROGRESS", "FORCE"}, !.fstate = "none", !.promoted = Nil]

AbortFailover(S) ==
  LET T == [S EXCEPT !.flags = @ \ {"IN_PROGRESS", "FORCE"}, !.fstate = "none",
                     !.promoted = Nil]
  IN IF S.promoted = Nil THEN T ELSE ClearFlag(T, S.promoted, {"PROMOTED"})

(* qsort order: lower priority, then more replicated data, then run id. *)
CompareSlavesForPromotion(a, b) ==
  \/ Priority[a] < Priority[b]
  \/ Priority[a] = Priority[b] /\ Offset[a] > Offset[b]
  \/ Priority[a] = Priority[b] /\ Offset[a] = Offset[b] /\ RunId[a] < RunId[b]

(* usable: the slaves that are connected and answered PING and INFO in     *)
(* time, with a replication link that has not been down for too long.      *)
SelectSlave(S, usable) ==
  LET good == {i \in DOMAIN S.slaves \cap usable :
                 "S_DOWN" \notin S.slaves[i] /\ Priority[i] # 0}
  IN IF good = {} THEN Nil
     ELSE CHOOSE i \in good : \A j \in good \ {i} : CompareSlavesForPromotion(i, j)

FailoverWaitStart(s, S, late) ==
  {LET isleader == o.winner = s
   IN IF isleader \/ "FORCE" \in S.flags
      THEN [o.st EXCEPT !.fstate = "select_slave"]
      ELSE IF late THEN AbortFailover(o.st) ELSE o.st
   : o \in GetLeader(s, S, S.failover_epoch)}

FailoverSelectSlave(S, usable) ==
  LET i == SelectSlave(S, usable)
  IN IF i = Nil THEN AbortFailover(S)
     ELSE [S EXCEPT !.slaves[i] = @ \cup {"PROMOTED"}, !.promoted = i,
                    !.fstate = "send_slaveof_noone"]

(* The slaves that still have to be told about the new master. *)
Unconfigured(S) ==
  {i \in DOMAIN S.slaves : S.slaves[i] \cap {"PROMOTED", "RECONF_DONE"} = {}}

InProgress(S) ==
  {i \in DOMAIN S.slaves : S.slaves[i] \cap {"RECONF_SENT", "RECONF_INPROG"} # {}}

(* Told in this round: a slave not told yet, or one whose SLAVEOF expired. *)
Tellable(S, usable, expired) ==
  Unconfigured(S) \cap usable \cap (expired \cup (DOMAIN S.slaves \ InProgress(S)))

(* The slaves are visited in hash order until parallel_syncs is reached:   *)
(* the sets that can have been visited.                                    *)
Visits(S, usable, expired) ==
  LET room == ParallelSyncs - Cardinality(InProgress(S))
      T == Tellable(S, usable, expired)
  IN IF room <= 0 THEN {{}}
     ELSE IF Cardinality(T) < room THEN {Unconfigured(S)}
     ELSE {V \in SUBSET Unconfigured(S) : Cardinality(V \cap T) = room}

(* An expired slave counts as done, and is told once more. *)
ReconfNextSlave(S, visited, told, expired) ==
  [S EXCEPT !.slaves =
     [i \in DOMAIN @ |->
        (IF i \in visited \cap expired THEN (@[i] \ {"RECONF_SENT"}) \cup {"RECONF_DONE"}
                                      ELSE @[i])
        \cup (IF i \in visited \cap told THEN {"RECONF_SENT"} ELSE {})]]

(* The slaves a best-effort SLAVEOF goes to when the failover times out. *)
BestEffort(S, usable) ==
  {i \in DOMAIN S.slaves \cap usable :
     S.slaves[i] \cap {"RECONF_DONE", "RECONF_SENT"} = {}}

FailoverDetectEnd(S, late, usable) ==
  LET waiting == {i \in Unconfigured(S) : "S_DOWN" \notin S.slaves[i]}
      end == late \/ waiting = {}
  IN IF S.promoted = Nil \/ "S_DOWN" \in S.slaves[S.promoted]
     THEN [st |-> S, tell |-> {}]
     ELSE [st |-> [S EXCEPT
                     !.fstate = IF end THEN "update_config" ELSE @,
                     !.slaves = [i \in DOMAIN @ |->
                        IF late /\ i \in BestEffort(S, usable)
                        THEN @[i] \cup {"RECONF_SENT"} ELSE @[i]]],
           tell |-> IF late THEN BestEffort(S, usable) ELSE {}]
-----------------------------------------------------------------------------
(* Resetting the master.                                                   *)

ResetMaster(S, keepPeers) ==
  [S EXCEPT !.slaves = << >>, !.peers = IF keepPeers THEN @ ELSE << >>,
            !.flags = {}, !.leader = Nil, !.fstate = "none", !.promoted = Nil,
            !.role = "master"]

(* +switch-master: the old address comes back as a slave of the new one. *)
ResetMasterAndChangeAddress(S, new) ==
  LET back == (DOMAIN S.slaves \cup {S.addr}) \ {new}
  IN [ResetMaster(S, TRUE) EXCEPT !.addr = new, !.slaves = [i \in back |-> {}]]

SwitchToPromotedSlave(S) ==
  ResetMasterAndChangeAddress(S, IF S.promoted = Nil THEN S.addr ELSE S.promoted)
-----------------------------------------------------------------------------
(* The timer, sentinelHandleRedisInstance on the master.                   *)

CheckSubjectivelyDown(S, down) ==
  [S EXCEPT !.flags = IF down THEN @ \cup {"S_DOWN"} ELSE @ \ {"S_DOWN"}]

CheckObjectivelyDown(S) ==
  LET agree == 1 + Cardinality({p \in DOMAIN S.peers : S.peers[p].down})
  IN [S EXCEPT !.flags = IF "S_DOWN" \in @ /\ agree >= Quorum
                         THEN @ \cup {"O_DOWN"} ELSE @ \ {"O_DOWN"}]

StartFailoverIfNeeded(S, late) ==
  IF "O_DOWN" \in S.flags /\ "IN_PROGRESS" \notin S.flags /\ late /\ S.epoch < MaxEpoch
  THEN StartFailover(S) ELSE S

(* Answers older than five ask periods are forgotten. *)
ForgetStale(S, stale) ==
  [S EXCEPT !.peers = [p \in DOMAIN @ |->
     IF p \in stale THEN [@[p] EXCEPT !.down = FALSE, !.leader = Nil] ELSE @[p]]]

(* One step of the state machine: the set of [st, tell, of], where "tell"  *)
(* are the instances sent SLAVEOF <of>.                                    *)
FailoverStateMachine(s, S, late, usable, expired) ==
  LET Quiet(T) == [st |-> T, tell |-> {}, of |-> NoOne]
  IN CASE "IN_PROGRESS" \notin S.flags -> {Quiet(S)}
       [] S.fstate = "wait_start" -> {Quiet(T) : T \in FailoverWaitStart(s, S, late)}
       [] S.fstate = "select_slave" -> {Quiet(FailoverSelectSlave(S, usable))}
       [] S.fstate = "send_slaveof_noone" ->
            {IF S.promoted \in usable
             THEN [st |-> [S EXCEPT !.fstate = "wait_promotion"],
                   tell |-> {S.promoted}, of |-> NoOne]
             ELSE Quiet(IF late THEN AbortFailover(S) ELSE S)}
       [] S.fstate = "wait_promotion" -> {Quiet(IF late THEN AbortFailover(S) ELSE S)}
       [] S.fstate = "reconf_slaves" ->
            {LET T == Tellable(S, usable, expired) \cap V
                 d == FailoverDetectEnd(ReconfNextSlave(S, V, T, expired), late, usable)
             IN [st |-> d.st, tell |-> T \cup d.tell, of |-> S.promoted]
             : V \in Visits(S, usable, expired)}

FullQueue(s) == {i \in Inst : Len(cmds[s][i]) >= MaxCmds}

Send(s, tell, of) ==
  cmds' = [cmds EXCEPT ![s] = [i \in Inst |-> IF i \in tell THEN Append(@[i], of) ELSE @[i]]]

(* sentinelAskMasterStateToOtherSentinels, with one question per link.     *)
Ask(s, S, asked) ==
  link' = [link EXCEPT ![s] = [p \in Sentinel |->
    IF p \in asked /\ @[p] = Idle
    THEN [kind |-> "req", addr |-> S.addr, epoch |-> S.epoch,
          runid |-> IF S.fstate # "none" THEN s ELSE Nil]
    ELSE @[p]]]

(* sentinelFlushConfig *)
Flush(s, S) == disk' = [disk EXCEPT ![s] = RewriteConfig(S)]

Voted(s, S, T) ==
  IF <<T.leader_epoch, T.leader>> # <<S.leader_epoch, S.leader>> /\ T.leader # Nil
  THEN {<<s, T.leader_epoch, T.leader>>} ELSE {}

(* What the clock and the links may be like when the timer runs, as far as *)
(* the handler looks: connected slaves with fresh data, slaves whose       *)
(* reconfiguration timed out, peers whose last answer is too old, peers    *)
(* asked again (a lost question is a LinkDown).                            *)
Usable(s, S) ==
  IF S.fstate \in {"select_slave", "send_slaveof_noone", "reconf_slaves"}
  THEN SUBSET (DOMAIN S.slaves \ FullQueue(s)) ELSE {{}}
Expired(S) ==
  IF S.fstate = "reconf_slaves"
  THEN SUBSET {i \in Unconfigured(S) : "RECONF_SENT" \in S.slaves[i]} ELSE {{}}
Stale(S) == SUBSET {p \in DOMAIN S.peers : S.peers[p].down \/ S.peers[p].leader # Nil}
Asked(s, S) ==
  IF "S_DOWN" \in S.flags THEN {{}, {p \in DOMAIN S.peers : {s, p} \in Connected /\ link[s][p] = Idle}} ELSE {{}}

(* The rest of the timer, from the step r of the state machine on S: ask   *)
(* the others, and end the failover when all is done.                      *)
FinishTimer(s, S, r, stale) ==
  LET T == ForgetStale(r.st, stale)
      end == T.fstate = "update_config"
      U == IF end THEN SwitchToPromotedSlave(T) ELSE T
      won == S.fstate = "wait_start" /\ T.fstate = "select_slave"
  IN /\ st' = [st EXCEPT ![s] = U]
     /\ \E asked \in Asked(s, T) : Ask(s, T, asked)
     /\ Send(s, r.tell, r.of)
     /\ IF end \/ U.leader_epoch # S.leader_epoch THEN Flush(s, U) ELSE UNCHANGED disk
     /\ ballots' = ballots \cup Voted(s, S, U)
     /\ elected' = IF won /\ "FORCE" \notin S.flags
                   THEN elected \cup {[who |-> s, failover_epoch |-> S.failover_epoch,
                                       vote_epoch |-> S.epoch]}
                   ELSE elected

HandleMaster(s, late) ==
  /\ s \in Active
  /\ st[s].tilt => late
  /\ UNCHANGED <<real, restarts>>
  /\ \E down \in IF "recovery" \in Ops THEN BOOLEAN ELSE {TRUE} :
       LET S1 == CheckObjectivelyDown(CheckSubjectivelyDown([st[s] EXCEPT !.tilt = FALSE], down))
           S2 == StartFailoverIfNeeded(S1, late)
           started == S2.epoch # S1.epoch
       IN \E stale \in Stale(S2), usable \in Usable(s, S2), expired \in Expired(S2) :
            LET S3 == IF started THEN ForgetStale(S2, stale) ELSE S2
            IN \E r \in FailoverStateMachine(s, S3, late /\ ~started, usable, expired) :
                 FinishTimer(s, S3, r, stale)

(* sentinelHandleRedisInstance on a slave: only the down flag is kept. *)
HandleSlave(s, i) ==
  /\ "slavedown" \in Ops
  /\ ~st[s].tilt /\ i \in DOMAIN st[s].slaves
  /\ \E f \in {{}, {"S_DOWN"}} :
       st' = [st EXCEPT ![s].slaves[i] = (@ \ {"S_DOWN"}) \cup f]
  /\ UNCHANGED <<disk, link, cmds, real, restarts, ballots, elected>>
-----------------------------------------------------------------------------
(* INFO replies, sentinelRefreshInstanceInfo.                              *)

MasterLooksSane(S) == S.role = "master" /\ S.flags \cap {"S_DOWN", "O_DOWN"} = {}

(* From the master: its role, and slaves not known yet. *)
InfoFromMaster(s) ==
  LET S == st[s]
      found == {j \in Inst \ {S.addr} : real[j] = S.addr} \ DOMAIN S.slaves
      T == [S EXCEPT !.role = IF real[S.addr] = NoOne THEN "master" ELSE "slave",
                     !.slaves = [j \in DOMAIN @ \cup found |->
                                   IF j \in found THEN {} ELSE @[j]]]
  IN /\ st' = [st EXCEPT ![s] = T]
     /\ IF found = {} THEN UNCHANGED disk ELSE Flush(s, T)
     /\ UNCHANGED <<link, cmds, real, restarts, ballots, elected>>

(* A slave being reconfigured: SENT -> INPROG -> DONE. *)
ReconfProgress(S, i, linkup) ==
  LET f == S.slaves[i]
      g == IF "RECONF_SENT" \in f /\ real[i] = S.promoted
           THEN (f \ {"RECONF_SENT"}) \cup {"RECONF_INPROG"} ELSE f
  IN IF "RECONF_INPROG" \in g /\ linkup
     THEN (g \ {"RECONF_INPROG"}) \cup {"RECONF_DONE"} ELSE g

(* Mutant: the promotion is not flushed. *)
InfoFromSlave_NoFlush(s, i, settled, linkup) ==
  LET S == st[s]
      promotion == /\ "PROMOTED" \in S.slaves[i] /\ "IN_PROGRESS" \in S.flags
                   /\ S.fstate = "wait_promotion"
      T == IF real[i] = NoOne /\ promotion
           THEN [S EXCEPT !.config_epoch = S.failover_epoch, !.fstate = "reconf_slaves"]
           ELSE S
  IN /\ i \in DOMAIN S.slaves /\ ~S.tilt
     /\ st' = [st EXCEPT ![s] = T]
     /\ UNCHANGED <<disk, cmds, link, real, restarts, ballots, elected>>

(* From a slave.  settled: the role or the replicated address reported has *)
(* not changed, and the slave has not been down, for the grace period.     *)
InfoFromSlave(s, i, settled, linkup) ==
  LET S == st[s]
      promotion == /\ "PROMOTED" \in S.slaves[i] /\ "IN_PROGRESS" \in S.flags
                   /\ S.fstate = "wait_promotion"
      convert == /\ real[i] = NoOne /\ "PROMOTED" \notin S.slaves[i]
                 /\ MasterLooksSane(S) /\ settled
      fix == real[i] \notin {NoOne, S.addr} /\ MasterLooksSane(S) /\ settled
      T == IF real[i] = NoOne /\ promotion
           THEN [S EXCEPT !.config_epoch = S.failover_epoch, !.fstate = "reconf_slaves"]
           ELSE IF real[i] # NoOne
           THEN [S EXCEPT !.slaves[i] = ReconfProgress(S, i, linkup)]
           ELSE S
  IN /\ i \in DOMAIN S.slaves /\ ~S.tilt
     /\ st' = [st EXCEPT ![s] = T]
     /\ IF T.fstate # S.fstate THEN Flush(s, T) ELSE UNCHANGED disk
     /\ Send(s, IF (convert \/ fix) /\ i \notin FullQueue(s) THEN {i} ELSE {}, S.addr)
     /\ UNCHANGED <<link, real, restarts, ballots, elected>>
-----------------------------------------------------------------------------
(* Questions, votes and hello messages between Sentinels.                  *)

(* Mutant: the vote is answered before it is on disk. *)
IsMasterDownByAddr_NoFlush(s, p) ==
  LET q == link[s][p]
      S == st[p]
      T == IF S.addr = q.addr /\ q.runid # Nil THEN VoteLeader(S, q.epoch, q.runid) ELSE S
  IN /\ q.kind = "req"
     /\ st' = [st EXCEPT ![p] = T]
     /\ ballots' = ballots \cup Voted(p, S, T)
     /\ link' = [link EXCEPT ![s][p] =
          [kind |-> "rep", down |-> "S_DOWN" \in S.flags,
           leader |-> T.leader, leader_epoch |-> T.leader_epoch]]
     /\ UNCHANGED <<disk, cmds, real, restarts, elected>>

(* SENTINEL IS-MASTER-DOWN-BY-ADDR at p, asked by s. *)
IsMasterDownByAddr(s, p) ==
  LET q == link[s][p]
      S == st[p]
      known == S.addr = q.addr
      T == IF known /\ q.runid # Nil THEN VoteLeader(S, q.epoch, q.runid) ELSE S
  IN /\ q.kind = "req"
     /\ st' = [st EXCEPT ![p] = T]
     /\ IF T = S THEN UNCHANGED disk ELSE Flush(p, T)
     /\ ballots' = ballots \cup Voted(p, S, T)
     /\ link' = [link EXCEPT ![s][p] =
          [kind |-> "rep", down |-> known /\ ~S.tilt /\ "S_DOWN" \in S.flags,
           leader |-> IF known /\ q.runid # Nil THEN T.leader ELSE Nil,
           leader_epoch |-> IF known /\ q.runid # Nil THEN T.leader_epoch ELSE 0]]
     /\ UNCHANGED <<cmds, real, restarts, elected>>

ReceiveIsMasterDownReply(s, p) ==
  LET r == link[s][p]
      P == [st[s].peers[p] EXCEPT !.down = r.down]
  IN /\ r.kind = "rep"
     /\ link' = [link EXCEPT ![s][p] = Idle]
     /\ st' = IF p \notin DOMAIN st[s].peers THEN st
              ELSE [st EXCEPT ![s].peers[p] =
                      IF r.leader = Nil THEN P
                      ELSE [P EXCEPT !.leader = r.leader, !.leader_epoch = r.leader_epoch]]
     /\ UNCHANGED <<disk, cmds, real, restarts, ballots, elected>>

AddPeer(S, s) ==
  [S EXCEPT !.peers = [p \in DOMAIN @ \cup {s} |-> IF p = s THEN NewPeer ELSE @[p]]]

(* t processes the hello of s: discovery, newer epoch, newer configuration. *)
ProcessHelloMessage(s, t) ==
  LET S == st[t]
      A == IF s \in DOMAIN S.peers THEN S ELSE AddPeer(S, s)
      B == IF st[s].epoch > A.epoch THEN [A EXCEPT !.epoch = st[s].epoch] ELSE A
      addr == GetCurrentMasterAddress(st[s])
      newer == B.config_epoch < st[s].config_epoch
      C == IF newer THEN [B EXCEPT !.config_epoch = st[s].config_epoch] ELSE B
      D == IF newer /\ addr # C.addr THEN ResetMasterAndChangeAddress(C, addr) ELSE C
  IN /\ {s, t} \in Connected
     /\ st' = [st EXCEPT ![t] = D]
     /\ disk' = [disk EXCEPT ![t] = IF D # C THEN RewriteConfig(D)
                                    ELSE IF B # S THEN RewriteConfig(B) ELSE @]
     /\ UNCHANGED <<link, cmds, real, restarts, ballots, elected>>
-----------------------------------------------------------------------------
(* Commands, faults and the monitored servers.                             *)

(* SENTINEL FAILOVER <master> *)
FailoverCommand(s, usable) ==
  LET S == st[s]
  IN /\ "failover" \in Ops /\ S.epoch < MaxEpoch
     /\ "IN_PROGRESS" \notin S.flags
     /\ SelectSlave(S, usable) # Nil
     /\ st' = [st EXCEPT ![s] = [StartFailover(S) EXCEPT !.flags = @ \cup {"FORCE"}]]
     /\ UNCHANGED <<disk, link, cmds, real, restarts, ballots, elected>>

(* SENTINEL RESET <pattern>: every master it knows, no rewrite. *)
ResetCommand(s) ==
  /\ "reset" \in Ops
  /\ st' = [st EXCEPT ![s] = ResetMaster(@, FALSE)]
  /\ UNCHANGED <<disk, link, cmds, real, restarts, ballots, elected>>

(* The clock jumped. *)
CheckTiltCondition(s) ==
  /\ "tilt" \in Ops /\ ~st[s].tilt
  /\ st' = [st EXCEPT ![s].tilt = TRUE]
  /\ UNCHANGED <<disk, link, cmds, real, restarts, ballots, elected>>

(* A failover of another master started here: the epoch is shared. *)
OtherMasterFailover(s) ==
  /\ "othermaster" \in Ops /\ st[s].epoch < MaxEpoch
  /\ st' = [st EXCEPT ![s].epoch = @ + 1]
  /\ UNCHANGED <<disk, link, cmds, real, restarts, ballots, elected>>

(* The process dies and comes back with its configuration file. *)
Restart(s) ==
  /\ s \in Crashing /\ restarts < MaxRestarts
  /\ restarts' = restarts + 1
  /\ st' = [st EXCEPT ![s] = LoadConfig(disk[s])]
  /\ link' = [a \in Sentinel |-> [b \in Sentinel |->
                IF s \in {a, b} THEN Idle ELSE link[a][b]]]
  /\ cmds' = [cmds EXCEPT ![s] = [i \in Inst |-> << >>]]
  /\ UNCHANGED <<disk, real, ballots, elected>>

(* A connection drops with what was queued on it. *)
LinkDown(s) ==
  /\ \/ \E p \in Sentinel : /\ link[s][p] # Idle
                              /\ link' = [link EXCEPT ![s][p] = Idle] /\ UNCHANGED cmds
     \/ \E i \in Inst : /\ cmds[s][i] # << >>
                          /\ cmds' = [cmds EXCEPT ![s][i] = << >>] /\ UNCHANGED link
  /\ UNCHANGED <<st, disk, real, restarts, ballots, elected>>

(* The server executes the SLAVEOF transaction of sentinelSendSlaveOf. *)
ExecSlaveOf(s, i) ==
  /\ cmds[s][i] # << >>
  /\ real' = [real EXCEPT ![i] = Head(cmds[s][i])]
  /\ cmds' = [cmds EXCEPT ![s][i] = Tail(@)]
  /\ UNCHANGED <<st, disk, link, restarts, ballots, elected>>
-----------------------------------------------------------------------------
Init ==
  /\ disk = [s \in Sentinel |-> Start(s)]
  /\ st = [s \in Sentinel |-> [LoadConfig(disk[s]) EXCEPT !.flags = {"S_DOWN"}]]
  /\ link = [s \in Sentinel |-> [p \in Sentinel |-> Idle]]
  /\ cmds = [s \in Sentinel |-> [i \in Inst |-> << >>]]
  /\ real = [i \in Inst |-> IF i = Master0 THEN NoOne ELSE Master0]
  /\ restarts = 0 /\ ballots = {} /\ elected = {}

Timer(s) ==
  \/ \E late \in BOOLEAN : HandleMaster(s, late)
  \/ \E i \in Inst : HandleSlave(s, i)
  \/ CheckTiltCondition(s)

Network(s) ==
  \/ InfoFromMaster(s)
  \/ \E i \in Inst, settled, linkup \in BOOLEAN : InfoFromSlave(s, i, settled, linkup)
  \/ \E p \in Sentinel : IsMasterDownByAddr(s, p) \/ ReceiveIsMasterDownReply(s, p)
                           \/ ProcessHelloMessage(s, p)
  \/ \E i \in Inst : ExecSlaveOf(s, i)
  \/ LinkDown(s)

Admin(s) ==
  \/ \E usable \in SUBSET Inst : FailoverCommand(s, usable)
  \/ ResetCommand(s) \/ OtherMasterFailover(s) \/ Restart(s)

Next == \E s \in Sentinel : Timer(s) \/ Network(s) \/ Admin(s)

Spec == Init /\ [][Next]_vars
(* serverCron calls sentinelTimer for ever, so the timeouts do expire; it  *)
(* matters while a failover is under way.                                  *)
FailoverTimer(s) == "IN_PROGRESS" \in st[s].flags /\ HandleMaster(s, TRUE)
FairSpec == Spec /\ \A s \in Sentinel : WF_vars(FailoverTimer(s))
-----------------------------------------------------------------------------
(* The shape of the state: a failover is under way exactly while its state *)
(* machine is off "none", nobody is ahead of an epoch never started, and   *)
(* the configuration file never knows more than the memory it came from.   *)
TypeOK ==
  /\ \A s \in DOMAIN st :
       /\ st[s].epoch \in 0..MaxEpoch /\ st[s].leader_epoch <= st[s].epoch
       /\ st[s].fstate \in FState
       /\ ("IN_PROGRESS" \in st[s].flags) = (st[s].fstate # "none")
       /\ st[s].addr \in DOMAIN real \ DOMAIN st[s].slaves
       /\ \A i \in DOMAIN st[s].slaves : st[s].slaves[i] \subseteq SlaveFlags
       /\ s \notin DOMAIN st[s].peers
       /\ disk[s].leader_epoch = st[s].leader_epoch
  /\ \A i \in DOMAIN real : real[i] \in DOMAIN real \cup {NoOne}
  /\ \A s \in DOMAIN st, i \in DOMAIN real : Len(cmds[s][i]) <= MaxCmds

(* sentinelVoteLeader: a Sentinel votes for one candidate per epoch,       *)
(* whatever it is asked, also when it crashes and restarts in between: the *)
(* vote is in the configuration file before the answer leaves.             *)
OneVotePerEpoch ==
  \A u, v \in ballots : u[1] = v[1] /\ u[2] = v[2] => u[3] = v[3]

(* sentinelGetLeader: no two Sentinels win the election of an epoch.  The  *)
(* function counts the others' votes of the current epoch with its own of  *)
(* the failover's epoch; the two are one election only while no newer      *)
(* epoch has been heard of, and the promise holds for those.               *)
OneLeaderPerEpoch ==
  \A u, v \in elected :
    /\ u.failover_epoch = u.vote_epoch
    /\ v.failover_epoch = v.vote_epoch
    /\ u.vote_epoch = v.vote_epoch
    => u.who = v.who

(* promoted_slave is not a dangling pointer: the one slave flagged         *)
(* PROMOTED, if any, is the one master->promoted_slave points to.          *)
PromotedIsSlave ==
  \A s \in DOMAIN st :
    {i \in DOMAIN st[s].slaves : "PROMOTED" \in st[s].slaves[i]}
      = IF st[s].promoted = Nil THEN {} ELSE {st[s].promoted}

(* sentinelRefreshInstanceInfo follows promoted_slave for a slave flagged  *)
(* RECONF_SENT without looking: there must be one.                         *)
ReconfHasTarget ==
  \A s \in DOMAIN st : InProgress(st[s]) # {} => st[s].promoted # Nil

(* sentinelRefreshInstanceInfo flushes the configuration when it sees that *)
(* the promotion worked: whoever is told about the new master, slaves by   *)
(* SLAVEOF and Sentinels by hello messages, is told an address that a      *)
(* crash cannot take back.                                                 *)
SavedBeforeTold ==
  \A s \in DOMAIN st : st[s].fstate = "reconf_slaves" => disk[s].addr = st[s].promoted

(* A failover under way ends, by success, by abort or by timeout, as long  *)
(* as the promoted slave does not stay down (sentinelFailoverDetectEnd     *)
(* returns before it looks at the clock when it is).                       *)
PromotedDown(s) == st[s].promoted \in DOMAIN st[s].slaves
                     /\ "S_DOWN" \in st[s].slaves[st[s].promoted]
FailoverEnds ==
  \A s \in Sentinel :
    "IN_PROGRESS" \in st[s].flags ~> "IN_PROGRESS" \notin st[s].flags \/ PromotedDown(s)
=============================================================================

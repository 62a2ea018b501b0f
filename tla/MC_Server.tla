----------------------------- MODULE MC_Server ------------------------------
(* The server, in parts that are looked at one at a time: replication,       *)
(* persistence, the clients' connections, Publish/Subscribe, the background  *)
(* threads and the event loop itself. part picks the one that a behaviour is *)
(* about, so that the state spaces add up; the others have nothing to do.    *)
EXTENDS Replication, Persistence, Clients, PubSub, Bio, Ae

CONSTANTS Parts, peer1, peer2

VARIABLE part

-----------------------------------------------------------------------------
(* Replication *)

NoFaults == [wrote |-> 0, drops |-> 0, ordered |-> 0, restarts |-> 0, timeouts |-> 0,
             fails |-> 0, bgsaves |-> 0, pings |-> 0]
Base == [hosts |-> <<Nil, 1>>, conns |-> 2, backlog |-> 2, diskless |-> FALSE, warm |-> FALSE,
         steps |-> FALSE,
         writes |-> <<>>, waits |-> <<>>, orders |-> <<>>, restarts |-> {},
         budget |-> NoFaults]
Warm == [Base EXCEPT !.warm = TRUE]

W(d) == [db |-> d, kind |-> "write"]
T(d) == [db |-> d, kind |-> "tx"]
K(kind) == [db |-> 0, kind |-> kind]

\* One slave: transactions and two databases, a lost link, a backlog that
\* can or cannot bridge it.
Links == [Base EXCEPT !.writes = <<W(1), T(1), W(0)>>, !.budget.drops = 1]

\* Two slaves share a BGSAVE, which may fail, as may the fork and the load.
Disk == [Base EXCEPT !.hosts = <<Nil, 1, 1>>, !.writes = <<W(1)>>, !.budget.fails = 1]

\* The RDB goes from the child's socket to two slaves, or to one whose link is
\* lost on the way.
Diskless == [Base EXCEPT !.hosts = <<Nil, 1, 1>>, !.diskless = TRUE, !.writes = <<W(1)>>]
DisklessDrop == [Base EXCEPT !.diskless = TRUE, !.writes = <<W(1), W(0)>>, !.budget.drops = 1]

\* A slave is promoted and the other follows it.
Failover == [Warm EXCEPT !.hosts = <<Nil, 1, 1>>, !.conns = 3, !.writes = <<W(1)>>,
               !.orders = <<<<2, Nil>>, <<3, 2>>>>]

\* A slave of a slave.
Chain == [Warm EXCEPT !.hosts = <<Nil, 1, 2>>, !.writes = <<T(1)>>, !.budget.drops = 1]

\* A promoted slave in a chain: the histories it hands down change names.
ChainFailover == [Warm EXCEPT !.hosts = <<Nil, 1, 2>>, !.writes = <<W(0), W(1)>>,
               !.orders = <<<<2, Nil>>, <<1, 2>>>>]

\* A slave restarts from the RDB file it received or saved itself.
RestartSlave == [Warm EXCEPT !.writes = <<W(1), W(1)>>, !.restarts = {<<2, 1>>},
               !.budget.restarts = 1, !.budget.bgsaves = 1]

\* The master restarts as a slave of the one promoted in its place.
RestartMaster == [Warm EXCEPT !.writes = <<W(1)>>, !.restarts = {<<1, 2>>},
               !.orders = <<<<2, Nil>>>>, !.budget.restarts = 1]

\* Scripts, with a slave that restarts.
Scripts == [Warm EXCEPT !.writes = <<K("eval"), K("evalsha"), K("evalsha")>>,
              !.restarts = {<<2, 1>>}, !.budget.restarts = 1]

\* Timers, and every step of the handshake.
Timers == [Base EXCEPT !.writes = <<W(1)>>, !.steps = TRUE, !.budget.timeouts = 1,
             !.budget.pings = 1]

\* Two clients wait, one of them for two slaves.
Waits == [Warm EXCEPT !.hosts = <<Nil, 1, 1>>, !.writes = <<W(0), W(0)>>, !.waits = <<1, 2>>]
WaitTimer == [Warm EXCEPT !.writes = <<W(0)>>, !.waits = <<1>>, !.budget.timeouts = 1,
                !.budget.drops = 1]

\* No process: the other parts are looked at.
NoNodes == [Base EXCEPT !.hosts = <<>>]

ReplicationScenarios == {NoNodes, Links, Disk, Diskless, DisklessDrop, Failover, Chain, ChainFailover, RestartSlave,
                  RestartMaster, Scripts, Timers, Waits, WaitTimer}

-----------------------------------------------------------------------------
(* Persistence *)

PBase ==
  [policy |-> "everysec", aof |-> TRUE, nofsync |-> FALSE, preamble |-> FALSE, torn |-> FALSE,
   prompt |-> FALSE, stoponerr |-> TRUE, savepoint |-> 0, minsize |-> 9, dbs |-> {0},
   multis |-> {FALSE}, fails |-> {0},
   bud |-> [write |-> 2, fail |-> 0, rewrite |-> 0, save |-> 0, config |-> 0, resync |-> 0,
            tick |-> 0, childfail |-> 0, shutdown |-> 0, crash |-> 0, power |-> 0]]

\* A rewrite while writes go to two databases, then a crash.
RewriteScenario ==
  [PBase EXCEPT !.policy = "no", !.dbs = {0, 1},
     !.bud = [@ EXCEPT !.write = 3, !.rewrite = 1, !.crash = 1]]
\* appendfsync always through a rewrite and a power failure.
AlwaysScenario ==
  [PBase EXCEPT !.policy = "always",
     !.bud = [@ EXCEPT !.rewrite = 1, !.power = 1, !.fail = 1, !.write = 3]]
\* appendfsync everysec with a slow disk and failing writes.
EverySecScenario ==
  [PBase EXCEPT !.bud = [@ EXCEPT !.write = 3, !.fail = 1, !.tick = 3, !.power = 1]]
\* The AOF is switched off and on while snapshots are made.
SwitchScenario ==
  [PBase EXCEPT !.policy = "no",
     !.bud = [@ EXCEPT !.write = 1, !.save = 1, !.config = 2, !.rewrite = 1]]
\* Snapshots only.
RdbScenario ==
  [PBase EXCEPT !.aof = FALSE, !.savepoint = 2,
     !.bud = [@ EXCEPT !.save = 1, !.tick = 2, !.childfail = 1, !.shutdown = 1, !.crash = 1]]
\* Growth, a shutdown and a synchronization with a master.
GrowthScenario ==
  [PBase EXCEPT !.policy = "no", !.minsize = 2,
     !.bud = [@ EXCEPT !.write = 3, !.shutdown = 1, !.resync = 1, !.childfail = 1]]
\* Transactions, and a crash of the process.
TransactionScenario ==
  [PBase EXCEPT !.multis = {TRUE, FALSE}, !.policy = "no",
     !.bud = [@ EXCEPT !.rewrite = 1, !.crash = 1]]
\* A power failure cuts the AOF anywhere, inside a command or a transaction; a
\* second start loads what the first has left of it.
TornScenario ==
  [PBase EXCEPT !.policy = "no", !.torn = TRUE, !.multis = {TRUE, FALSE},
     !.bud = [@ EXCEPT !.write = 3, !.power = 1, !.crash = 1]]
\* The same behind a rewrite with an RDB preamble, fsyncing always.
PreambleScenario ==
  [PBase EXCEPT !.policy = "always", !.torn = TRUE, !.preamble = TRUE,
     !.bud = [@ EXCEPT !.write = 3, !.rewrite = 1, !.power = 1, !.crash = 1]]
\* no-appendfsync-on-rewrite: a power failure while a child is at work.
NoFsyncScenario ==
  [PBase EXCEPT !.policy = "always", !.nofsync = TRUE,
     !.bud = [@ EXCEPT !.rewrite = 1, !.power = 1]]
\* The process dies while an everysec write is put off or has failed.
PostponedScenario ==
  [PBase EXCEPT !.bud = [@ EXCEPT !.write = 3, !.fail = 1, !.tick = 2, !.crash = 1]]
PersistenceScenarios == {RewriteScenario, AlwaysScenario, EverySecScenario, SwitchScenario,
                         RdbScenario, GrowthScenario, TransactionScenario, TornScenario,
                         PreambleScenario, NoFsyncScenario, PostponedScenario}

\* One client writes twice and goes away; the disk is prompt.
IdleScenario == [PBase EXCEPT !.prompt = TRUE, !.bud = [@ EXCEPT !.tick = 5]]
IdleScenarios == {IdleScenario}

-----------------------------------------------------------------------------
(* Clients: pipelined and split commands, slow sockets, blocking, pauses,    *)
(* CLIENT REPLY and KILL, limits, and peers that leave.                      *)

Req(form, name) == [form |-> form, args |-> <<<<Byte(name)>>>>]
Multi(name) == Req("multi", name)
MultiArg(name, arg) == [form |-> "multi", args |-> <<<<Byte(name)>>, arg>>]

CBase == [cmds |-> (peer1 :> <<>> @@ peer2 :> <<>>), reads |-> {1, 2, 4}, writes |-> {0, 1, 3},
         hard |-> 0, soft |-> 0, softTime |-> 0, pause |-> 1, block |-> 1,
         idle |-> 0, maxqb |-> 100, maxclients |-> 2, leave |-> {}, end |-> 2]

Sends(cx, cy) == [CBase EXCEPT !.cmds = peer1 :> cx @@ peer2 :> cy]

(* Split and pipelined requests: arguments holding CR LF, big ones, inline.  *)
SplitScenario ==
  Sends(<<MultiArg("echo", <<CR, LF>>), Req("inline", "echo"), Multi("long")>>, <<>>)
BigScenario ==
  Sends(<<MultiArg("echo", <<CR, Byte("b"), LF, CR, LF>>), Multi("echo")>>, <<>>)
BrokenScenario ==
  [Sends(<<Multi("echo"), Req("headless", "echo"), Multi("echo")>>, <<>>)
     EXCEPT !.reads = {2, 5}]

(* One client blocks and the other serves it, or it times out; SLAVEOF.      *)
BlockScenario ==
  [Sends(<<Req("inline", "block"), Req("inline", "echo")>>,
         <<Req("inline", "long"), Req("inline", "push")>>)
     EXCEPT !.reads = {1, 3}, !.writes = {0, 3}, !.end = 2]
RoleScenario ==
  [Sends(<<Req("inline", "block"), Req("inline", "echo")>>,
         <<Req("inline", "slaveof")>>)
     EXCEPT !.reads = {2, 3}, !.block = 0, !.end = 1]

PauseScenario ==
  [Sends(<<Req("inline", "echo"), Req("inline", "echo")>>,
         <<Req("inline", "pause"), Req("inline", "long")>>)
     EXCEPT !.reads = {2, 3}, !.writes = {1, 3}, !.end = 2]

(* A pause and a blocked client that end at the same time; a pause while a   *)
(* big argument is on its way.                                               *)
PauseBlockScenario ==
  [Sends(<<Req("inline", "block"), Req("inline", "echo")>>,
         <<Req("inline", "pause"), Req("inline", "push")>>)
     EXCEPT !.reads = {3}, !.writes = {1, 3}]
PauseBigScenario ==
  [Sends(<<MultiArg("echo", [i \in 1..5 |-> Byte("b")]), Multi("echo")>>,
         <<Req("inline", "pause")>>)
     EXCEPT !.reads = {3, 5}, !.writes = {3}]

(* CLIENT REPLY; CLIENT KILL while the other has replies and input waiting.  *)
ReplyScenario ==
  [Sends(<<Req("inline", "skip"), Req("inline", "long"), Req("inline", "echo"),
           Req("inline", "off"), Req("inline", "echo"), Req("inline", "skip"),
           Req("inline", "on"), Req("inline", "echo"), Req("inline", "quit"),
           Req("inline", "echo")>>, <<>>)
     EXCEPT !.reads = {3, 4}]
KillScenario ==
  [Sends(<<Req("inline", "long"), Req("inline", "block"), Req("inline", "echo")>>,
         <<Req("inline", "push"), Req("inline", "kill")>>)
     EXCEPT !.reads = {3, 4}, !.end = 1, !.leave = {peer1}]

(* Output buffers, query buffers and clients at their limits; idle clients.  *)
LimitScenario ==
  [Sends(<<Multi("long"), Multi("long"), Multi("echo")>>, <<Req("inline", "echo")>>)
     EXCEPT !.reads = {4}, !.hard = 12, !.soft = 5, !.softTime = 0,
            !.end = 2, !.maxclients = 1]
IdleClientScenario ==
  [Sends(<<Req("inline", "block"), Req("inline", "echo")>>, <<MultiArg("echo", <<LF, LF>>)>>)
     EXCEPT !.reads = {4}, !.idle = 1, !.end = 3, !.block = 2, !.maxqb = 8]

\* No client ever connects and no time passes: the other parts are looked at.
NoClients == [CBase EXCEPT !.end = 1]

ClientScenarios ==
  {NoClients, SplitScenario, BigScenario, BrokenScenario, BlockScenario, RoleScenario,
   PauseScenario, PauseBlockScenario, PauseBigScenario, ReplyScenario, KillScenario, LimitScenario, IdleClientScenario}

-----------------------------------------------------------------------------
(* Publish/Subscribe: a pattern for every channel and one for a single one.  *)
UsedNames == [c \in Subscriber |-> IF c = peer1 THEN [channels |-> Channel, patterns |-> {"*"}]
                                   ELSE [channels |-> {"news"}, patterns |-> Pattern]]
Matching == [p \in Pattern |-> IF p = "*" THEN Channel ELSE Channel \cap {p}]

(* The event loop: files that come and go while the set grows; timers while  *)
(* the clock is set back; a file and a timer that change each other.         *)
FilesScenario == [sizes |-> {1, 2}, handlers |-> {1, 2}, timers |-> 0, back |-> 0, end |-> 2]
TimersScenario == [sizes |-> {0}, handlers |-> {1}, timers |-> 2, back |-> 1, end |-> 4]
FileTimerScenario == [sizes |-> {1}, handlers |-> {1}, timers |-> 1, back |-> 0, end |-> 3]
LoopScenarios == {FilesScenario, TimersScenario, FileTimerScenario}

-----------------------------------------------------------------------------
ServerInit ==
  /\ part \in Parts
  /\ Init /\ PInit /\ CInit /\ PsInit /\ BioInit /\ AeInit
  /\ (part = "replication") = (scen # NoNodes)
  /\ part # "persistence" => pscen = GrowthScenario
  /\ (part = "clients") = (cscen # NoClients)
  /\ part # "events" => aescen = FilesScenario

ServerNext ==
  \/ part = "replication" /\ Next /\ UNCHANGED <<part, pvars, cvars, psVars, bioVars, aeVars>>
  \/ part = "persistence" /\ PNext /\ UNCHANGED <<part, vars, cvars, psVars, bioVars, aeVars>>
  \/ part = "clients" /\ CNext /\ UNCHANGED <<part, vars, pvars, psVars, bioVars, aeVars>>
  \/ part = "pubsub" /\ PsNext /\ UNCHANGED <<part, vars, pvars, cvars, bioVars, aeVars>>
  \/ part = "bio" /\ BioNext /\ UNCHANGED <<part, vars, pvars, cvars, psVars, aeVars>>
  \/ part = "events" /\ AeNext /\ UNCHANGED <<part, vars, pvars, cvars, psVars, bioVars>>

(* The scheduler runs every background thread, and the main thread goes on   *)
(* with what it began and polls while it waits.                              *)
BioFairness ==
  /\ \A t \in BioType : /\ WF_bioVars(part = "bio" /\ BioThread(t))
                        /\ WF_bioVars(part = "bio" /\ BioCreateBackgroundJob(t))
  /\ WF_bioVars(part = "bio" /\ (SlotToKeyFlushAsync \/ EvictDone))

(* The loop goes on unless it sleeps, and time passes; no file need fire.    *)
AeFairness == WF_aeVars(part = "events" /\ AeGoes) /\ WF_aeVars(part = "events" /\ Tick)

ServerSpec ==
  /\ ServerInit /\ [][ServerNext]_<<part, vars, pvars, cvars, psVars, bioVars, aeVars>>
  /\ LoopFairness /\ CLoopFairness /\ BioFairness /\ AeFairness

\* A slave's dataset is a prefix of its master's history, also after failovers
\* and restarts, and WAIT counts only slaves that have the write
\* (replicationFeedSlaves, masterTryPartialResynchronization, waitCommand).
ReplicationSound ==
  part = "replication" => TypeOK /\ StreamExact /\ HistoryUnique /\ WaitSound

\* The files hold what was written, through rewrites, snapshots, postponed and
\* failing writes and restarts (flushAppendOnlyFile, backgroundRewriteDoneHandler,
\* rdbSave), except an AOF that the loader has truncated to nothing because it
\* ended in the first command behind its RDB preamble.
FilesSound ==
  part = "persistence" =>
    AofReplays /\ RewriteReplays /\ DurableReplies /\ DirtyExact /\ PostponedBriefly

\* A connection runs what was sent and gets the replies in order, however its
\* bytes are cut, and is on the lists of the server that its state calls for
\* (processMultibulkBuffer, addReply, writeToClient, freeClient), except for what
\* the end of a pause does to a client that is just unblocked (it is queued
\* twice), and a pause to one that sends more behind a big argument (it is closed).
ConnectionsSound ==
  part = "clients" => ListsExact /\ RunsWhatWasSent /\ RepliesInOrder /\ ClosedForReason

\* Slaves catch up once the links hold, clients get all their answers, what is
\* given to the background threads is freed and timers run (replicationCron,
\* processUnblockedClients, bioProcessBackgroundJobs, processTimeEvents).
ServerProgress == EventuallySynced /\ AllAnswered /\ AllFreed /\ TimersRun

\* Subscriptions and messages, background jobs, and files and timers are each
\* accounted for exactly once, whatever handlers and threads run in between
\* (pubsubPublishMessage, bioProcessBackgroundJobs, aeProcessEvents).
ServicesSound ==
  /\ part = "pubsub" => SubscriptionsAgree /\ PublishedExactly
  /\ part = "bio" => JobsExact /\ LazyExact
  /\ part = "events" => FilesExact /\ TimersExact /\ NoOversleep

\* A restart loads a prefix of the writes, among them every answered one that the
\* fsync policy promises (loadDataFromDisk), unless an earlier start has truncated
\* the AOF down to nothing; and no client command runs while clients are paused
\* (clientsArePaused).
ServerSteps == RecoversPrefix /\ PausedRunsNothing
=============================================================================

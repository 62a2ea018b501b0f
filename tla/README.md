# Verification of the coms4111 database programs and their Redis server

This directory holds TLA+ models of the programs of the course repository
(COMS 4111, introduction to databases) and of the Redis 4.0.6 server that is kept
in it, TLC configurations that check them on small instances, and TLAPS proofs of
the properties that matter most. Paths below are relative to `src/`; `redis/`
stands for `hw5/redis-4.0.6/src/`.

## The system

The repository has two kinds of code.

**Database programs**: triggers, functions and stored procedures of MySQL, called
from any number of sessions at once.

| Part | Source | State | Operations |
|---|---|---|---|
| Employee ids | `ec1/ec1_ddl.sql` | Employee, user_prefix_count | insert and update triggers, deletes |
| Bank | `ec3/ec3.sql` | two account tables, a log | number triggers, `transfer_commit`, closing accounts |
| University entities | `hw3/hw3_ddl.sql`, `hw3_procedures.sql` | Person, Student, Faculty, two views | `generate_uni`, six procedures, triggers |
| Course participation | `hw3/hw3_advanced.sql` | course_participant over the above | the insert trigger with prerequisite, seat and teaching limits |

**Redis**: the server `hw5` talks to, with Redis Cluster and Redis Sentinel. A
server is one main thread that runs an event loop, children it forks to save the
dataset, and background threads; servers talk to clients, slaves, other cluster
nodes and Sentinels over links that may break at any time.

| Part | Source (`redis/`) | What makes it hard |
|---|---|---|
| Keyspace, commands | `db.c`, `expire.c`, `multi.c`, `evict.c`, `blocked.c`, `t_*.c`, `sort.c`, `bitops.c` | expires, blocked clients, WATCH and eviction meet every command; what is propagated must rebuild the dataset |
| Data structures | `dict.c`, `t_zset.c`, `quicklist.c`, `ziplist.c`, `intset.c`, `adlist.c`, `rax.c` | incremental rehashing under iterators; splits, merges, cascades, spans |
| Replication | `replication.c` | partial resyncs over histories that forked, children shared by slaves, links that break |
| Persistence | `aof.c`, `rdb.c` | rewrites under writes, three fsync policies, crashes |
| Clients | `networking.c` | requests cut anywhere, slow readers, clients freed while on several lists |
| Publish/Subscribe, event loop, threads | `pubsub.c`, `ae.c`, `bio.c`, `lazyfree.c` | handlers that change what is being walked; a counter shared by threads |
| Cluster | `cluster.c`, `redis-trib.rb` | votes, epochs, reordered claims, half-moved slots |
| Sentinel | `sentinel.c` | votes over restarts, failovers with a timeout in each state |

## Modules

| Module | Models |
|---|---|
| `EmployeeIds` | `ec1/ec1_ddl.sql` |
| `Bank`, `Ledger`, `BankRefinement` | `ec3/ec3.sql`; atomic transfers as its abstract specification; the mapping between the two |
| `PersonTables`, `Participation` | the hw3 procedures; the participation trigger, composed with them and refining them |
| `Strings`, `Lists`, `Sets`, `Hashes`, `ZSets`, `Sort` | what the commands of `t_*.c` and `sort.c` do to a value, as operators |
| `Keyspace`, `RedisServer` | keys, expires and their removal; `call()`, transactions, blocked clients, eviction, propagation, over the command operators |
| `Bitops` | SETBIT, BITOP, BITCOUNT, BITPOS, BITFIELD |
| `Dict`, `Skiplist`, `Quicklist`, `Ziplist`, `Intset`, `AdList`, `Rax` | one data structure each, against a reference value |
| `Replication`, `Persistence`, `Clients`, `PubSub`, `Bio`, `Ae` | the parts of a server |
| `ClusterFailover`, `ClusterSlots` | failure detection, elections, epochs, replica migration; moving slots under clients |
| `Sentinel`, `SentinelLink`, `SentinelScripts` | elections and failovers; pings and reconnections; the script queue |
| `MC_Bank`, `MC_Participation`, `MC_Data`, `MC_Server`, `MC_Cluster`, `MC_Sentinel` | values of the constants, scenarios, and the specifications the runs check |
| `EmployeeIdsProofs`, `BankProofs`, `PersonTablesProofs`, `ParticipationProofs`, `SentinelProofs`, `ClusterProofs`, `BioProofs` | theorems |

`PROJECT.json` gives the source lines of every definition ("map"). Operators whose
name has a suffix after an underscore (`Covered_NoAmount`, `Quorum_Half`, ...) are
the code with a plausible mistake. Each stands before the definition it varies
and nothing uses it; put in that definition's place, it makes TLC report the
property named in `PROJECT.json` ("mutants").

### How MySQL is modelled

The programs run on MySQL with its defaults, which fixes what a step is:

* autocommit: every statement of a procedure commits on its own, a `CALL` is not
  atomic, and an error or a killed session leaves what was done before it;
* a trigger or function runs inside the statement that invokes it; an error rolls
  that statement back, the trigger's writes included;
* `SELECT` in a trigger or function is a non-locking snapshot read. An INSERT whose
  trigger reads is therefore two steps (the reads; then the writes with the key
  checks, on the state as it is by then). A single UPDATE or DELETE locks the row
  it changes and is one step;
* a scalar subquery with two rows is error 1242, with none it is NULL, and a
  comparison with NULL takes the ELSE branch.

A statement that is refused changes nothing, so there is no step for it unless it
ends a call. The switches `Overlap`, `DeletesOverlap`, `Killable`, `Ops` and `Careful`
say how the database is used: whether statements of different sessions interleave,
rows are deleted in the middle of an INSERT, sessions die, which statements are
sent, and whether clients pass arguments the triggers accept. The theorems carry them as assumptions, so
each says under which use its property holds.

* `EmployeeIds`: `row[s]` is the row the insert trigger of session `s` has prepared;
  `InsertTrigger` is the reading half of an INSERT, `InsertApply` the writing half.
* `Bank`: `call[s]` holds the local variables and the position of a call. `Check`,
  `ReadSource`, `Debit`, `ReadTarget`, `Credit`, `WriteLog` are the statements of
  `transfer_commit`; its two branches differ in `Floor` and `Table` only. FLOAT
  balances are integers. `BankRefinement` lets a transfer take effect with its log
  record and undoes (`Book`) the updates of a call that has not come so far.
* `PersonTables`: rows keep the number of the call that wrote them (`by`), which
  tells a half-done update from a whole one. Student and faculty procedures share
  their actions. `Participation` adds `enrolling[s]`, the row an INSERT is about to
  add after its trigger's checks. Courses, sections and prerequisites are
  constants: no program changes them.

### How Redis is modelled

The main thread runs a handler to its end, so a step is one command, one packet,
one timer or one callback, with everything the handler and the `beforeSleep` after
it do. What really runs at the same time (children, threads, other servers, the
network, the kernel's buffers) has steps of its own. Keys and values are a few
model values, time is a small counter or a choice, and integers that can
overflow have a reduced width (`MaxLL`, `LLBytes`).

* `RedisServer` takes a command of a client as one step of `call()`: lookup with
  lazy expire, the command's operator, propagation, then
  `handleClientsBlockedOnLists`. A replica that replays what was propagated is part
  of the state.
* `Replication`: nodes, connections with what is buffered on both ends, the
  backlog, BGSAVE children, replication ids with their second id and offset.
* `Persistence`: the dataset, `aof_buf`, the file split into what is written and what
  is on disk, the child's copy, the pipe and the parent's buffer.
* `Clients`: the query buffer token by token, the two reply buffers, and the lists of
  pending, blocked, unblocked and closing clients.
* `Bio`: the main thread and one thread per job type, with the lock and the
  condition variable of each queue; `Ae`: the loop, file events, timers, and handlers
  that create and delete both.
* `ClusterFailover`: `nd[n]` is what node `n` knows of all the nodes, its epochs, its
  election and its manual failover; `net` the packets; a handler is a function from
  the state of a node to a result (state, packets, `todo` flags), and `Commit` puts
  that into the system. `ClusterSlots`: two ends of a slot migration, clients that
  follow redirections, redis-trib's `move_slot` step by step.
* `Sentinel`: each Sentinel's view of the master with its failover state, its
  configuration file, and the questions and answers under way.

An MC module that holds several parts runs one of them at a time: the variable
`part` (`focus` in `MC_Data`) is chosen at the start and the other parts do not move,
so state spaces add up instead of multiplying. A property of such a module is a
conjunction with one line per part.

## Runs

| Run | Shows |
|---|---|
| `employee_overlap` | Two sessions insert and update at once and delete between inserts: ids without gaps (`CounterExact`), never reused (`IdsNeverReused`) |
| `bank_serial` | Transfers one after the other: the log explains every balance (`Reconciled`) and the bank implements the ledger (`ImplementsLedger`) |
| `bank_accounts` | Accounts come and go, sessions are killed: `AccountIdsUnique`, `NoMoneyCreated`, `FloorRespected`, `ChangedByAmount` |
| `enrol_serial` | One call at a time, with deletes and unis used again: `WholePersons`, `SeatLimit`, `TeachingLimit`, `RefinesPersonTables` |
| `enrol_concurrent` | Three persons in two sessions: overlapping inserts exceed a limit by at most one (`SeatOverrun`, `TeachingOverrun`); `PrereqsEnrolled` |
| `sentinel` | `OneVotePerEpoch`, `OneLeaderPerEpoch` over restarts; `SavedBeforeTold`; `SentinelSound` (no dangling promoted slave, bounded scripts); `SentinelProgress` (failovers end, a hung link is noticed) |
| `cluster` | `OneVotePerEpoch`, `OneWinnerPerEpoch`; `TablesSound` (claims of a slot can be ordered, migration leaves a slave); `MovesSound` (no key lost, no stale read except of the copy a broken MIGRATE left); `FailoverSteps` (FAIL needs a majority, promotions get newer epochs, a manual failover loses nothing); `ClusterHeals` (epochs settle, slots are served again, requests are answered) |
| `server` | `ReplicationSound` (the slave's dataset is the master's, WAIT counts right), `FilesSound` (files replay to the dataset, under `always` what is fsynced holds every answered write), `ConnectionsSound` (commands run as sent, replies in order), `ServicesSound` (Pub/Sub, threads, event loop), `ServerSteps` (a restart recovers a prefix of the writes with every answered one the fsync policy promises, a pause runs nothing), `ServerProgress` (slaves sync, requests are answered, objects are freed, timers run) |
| `data` | `KeyspaceSound` (a replay of what was propagated is the dataset, nobody blocked on a list, expired keys hidden), `StructuresExact`, `QueriesExact`, `TraversalsComplete`, `CommandSteps` (EXEC only if nothing watched changed, blocked clients served in order, eviction) |

Three runs find a sentence of the repository contradicted by the code:

* `enrol_deleted`: a student who takes part in a section is deleted; the foreign key
  keeps the person and the participant, `student_limit` no longer counts them, and the
  seat is given a second time (`SeatLimit`, `hw3_advanced.sql:88`).
* `bank_lost_update`: of two overlapping transfers the second UPDATE writes a balance
  read before the first, which is undone (`ChangedByAmount`, `ec3.sql:77`).
* `persistence_idle`: with `appendfsync everysec`, the last writes before the clients
  fall silent are never fsynced, because `flushAppendOnlyFile` returns on an empty
  buffer before it looks whether an fsync is due (`EverySecond`, `redis.conf:661`).

### Bounds

* `MaxSeq`, `MaxOpened`, `MaxLog`, `MaxCalls`, `MaxRows`, `Dates` cap what would
  grow in the database programs. Three ids of a prefix allow a delete in the middle
  and at the end, and a third insert that meets two overlapping ones; three
  transfers allow there-and-back and a refusal. Three persons allow two students
  for one seat, and a lecturer. Limits are small so that they are met: sections with
  no seat and with one, five sections of one semester against a teaching limit of
  three, one account that starts at its limit. `MaxRows` caps course_participant at
  one row above what a lecturer's overrun takes where statements overlap.
* The Redis runs bound work by scenarios: records in the MC modules that name
  the nodes, the operations, and a budget of writes, faults, restarts and ticks.
  A scenario exists for each situation the code treats differently (for
  replication: disk and socket synchronization, a dropped child, failover, a chain
  of slaves, restarts of either side, scripts, WAIT).
* Epochs are bounded by `MaxEpoch` and `scn.maxepoch`, with room for one election
  and for a collision; packets of the cluster bus by `MaxPings`, one over the bound
  being one the link lost.
* The structures use three to five keys, chosen so that tables expand and shrink,
  nodes split at their first and last byte, ziplist length fields grow, and skip
  list levels differ.
* Sessions are interchangeable (SYMMETRY) only in runs without temporal
  properties other than action properties, and no property names a session.

### Fairness and deadlock

The database programs state no fairness and no liveness is claimed of them: every
step is a statement some client chooses to send, and nothing retries or waits.

For Redis, fairness is what the event loop gives: it polls every descriptor, runs
`beforeSleep` and the cron for ever, and threads that hold a job are scheduled. It is
stated as weak fairness of a step (`Bio`, `Ae`, `ClusterSlots`, `Sentinel`, `SentinelLink`)
or, where that is dear for TLC, as "again and again nothing is left for this step
to do" (`LoopFairness` in `Replication`, `CLoopFairness` in `Clients`, `Fairness` in
`ClusterFailover`). The network, clients and operators promise nothing, except that
TCP delivers what stays on a link. `EventuallyServed` also takes it that a FAIL
reaches the voters within the election delay, which is what the comment on the 500
milliseconds in `clusterHandleSlaveFailover` says the delay is for.

Deadlock checking is off: clients that are done, and the bounds, stop the models.

## Proofs

The theorems hold for every number of sessions, names, accounts, sections,
Sentinels, cluster nodes, jobs and for every bound. Constants are assumed to have
their types and to be finite where the code counts them.

* **EmployeeIdsProofs.** `CounterExact` is not inductive: nothing in it says what a
  prepared row may carry. `IdInv` adds that a prepared count is at most one ahead
  of the counter, that an id issued since a row was prepared is still in the table
  when no DELETE runs inside an INSERT (so the key refuses a stale row), and that
  without overlap the one prepared row is current. From it follow `CounterIsExact`
  and `NoReuse` (statements do not overlap, or deletes come between inserts) and
  `NoClash` (no overlap).
* **BankProofs.** `IdsUnique` (no overlap) rests on `NumberInv`: an account's number lies
  above the keys of all older accounts of its kind and not above its own key.
  `TransfersAreExact` and `FloorsAreRespected` (no overlap; the second for amounts
  that are not negative) say that what a call has read is still true when it
  writes. `Refinement`: every step of the bank is a step of the ledger or leaves it
  alone, when calls neither overlap nor are killed and targets exist.
* **PersonTablesProofs.** `PersonsAreWhole` (no overlap, careful clients, no direct
  inserts) rests on the lemma that every derived row has its person, which the
  foreign keys carry through any overlap, and on `WholeInv`: a person is consistent unless a call is
  between its two statements on it (`Half`), and such a call knows enough of its
  person (`Midway`) to finish.
* **ParticipationProofs.** `Refinement` shows that `Participation` implements
  `PersonTables`, so what is proved there holds here. `SeatsAreLimited` and
  `TeachingIsLimited` strengthen the limit by "who has passed the check still finds
  a place". `SeatOverrunIsBounded` and `TeachingOverrunIsBounded` allow overlap: a limit
  is exceeded by at most one for each further session. `PrereqsAreEnrolled` (no
  overlap or no deletes): the rows a check relied on stay until the row goes in.
* **SentinelProofs.** `VoteOnce`: a Sentinel votes once per epoch, over any network,
  resets and restarts. `VoteInv` ties its vote to its configuration file, to the
  answers under way and to what its peers recorded of it. `PromotionSaved`: the
  promoted slave is in the file while slaves are being told to follow it.
  `LeaderOnce`: every election is backed by a majority of ballots (`ElectedInv`), so
  two winners share a voter, who voted once. It assumes that SENTINEL RESET is not
  used or that the quorum is more than half (`SafeQuorum`): a reset empties the table
  whose size is halved. Like the property, it speaks of counts made while the
  failover's epoch is the current one (see below).
* **ClusterProofs.** `MasterVotesOnce`: in a behaviour without restarts
  (`[][Running]_vars`), a master votes for one slave per epoch. `VoteInv` says that
  `lastVoteEpoch` is no earlier than any vote sent and no later than `currentEpoch`; the
  lemmas named `Quiet...` show for each operation of `cluster.c` that it moves the epoch
  forward only and sends no vote. The condition is needed: the vote is recorded
  without `CLUSTER_TODO_SAVE_CONFIG` (`cluster.c:2695`), and TLC finds a second vote of a
  voter that restarts (scenario `Election` with a voter in `crash`).
* **BioProofs.** `JobsInOrder` and `LazyFreeExact`: `JobsExact` and `LazyExact`, which the
  run `server` checks as part of `ServicesSound`. Both are stated of one queue with the
  state of its thread, so that an operation on a queue is a lemma on sequences.

Each proofs module about a database program also proves its type invariant.

**Only model-checked**, and why:

* all liveness (`SentinelProgress`, `ClusterHeals`, `ServerProgress`): out of the reach of
  these provers, as is everything with ENABLED;
* `Reconciled` and `NoMoneyCreated`: sums are folds, whose value for every set needs an
  induction over data;
* `OneWinnerPerEpoch` of the cluster: a slave compares its votes with the size of the
  cluster as it knows it, so majorities of two slaves need not meet for every
  history of `size`;
* `KeyspaceSound`, `StructuresExact`, `QueriesExact`, `TraversalsComplete`, `CommandSteps`,
  `ConnectionsSound`: their modules use RECURSIVE operators or compare a structure
  with the value of a recursive definition;
* `ReplicationSound`, `FilesSound`, `ServerSteps`, `TablesSound`, `MovesSound`,
  `FailoverSteps`, `SentinelSound` and the Pub/Sub and event loop parts of
  `ServicesSound`: no proof has been written. They are conjunctions over modules,
  stated in MC modules.

## Where the code and its documentation part

Found while modelling. Unless a run above is about it, the properties are stated
so as to leave the case out, and say so where they do.

* Bank and enrolment: a transfer to an unknown account debits the source and reports
  success (`ec3.sql:82`, comment at 81); a DELETE between the two halves of an INSERT
  takes the counter of employee ids back, and an id is used again
  (`ec1_ddl.sql:48`); semester 1
  is September to December and semester 2 January to April of the same year, so in
  January `completed_course` holds the sections of the coming fall
  (`hw3_advanced.sql:45`, comment at 63).
* `sentinel.c`: `sentinelGetLeader` counts others' votes of the current epoch with its
  own of the failover's epoch (3664-3727, comment at 3658); `config_epoch` may go back
  over a restart or by a promotion whose epoch is older than one heard since.
* `cluster.c`: a restarted master may vote twice in an epoch (2695); a second forced
  manual failover may run without a new epoch.
* `cluster.c`, `redis-trib.rb`: a MIGRATE that times out, or whose connection breaks
  twice, leaves a copy of the key on the target, which serves it stale once the
  slot is its own; with `fix` a RESTORE REPLACE still in the socket can overwrite
  what was written since (5077-5147). `ServesTruth` and `NothingLost` name the copies
  (`stray`); scenarios `TimeoutScenario`, `ResetScenario`, `FixScenario`.
* `db.c`, `t_list.c`, `t_string.c`, `multi.c`: SORT with STORE signals a list only when
  the key is new, so one stored over a string leaves a client blocked in BLPOP on
  it (`tests/unit/type/list.tcl:407` expects the pop; `NoneBlockedOnList` leaves out
  keys in `overlaid`). INCRBYFLOAT is propagated as a SET, which drops the expire on
  slaves (`ReplicaAgrees`: once `floated` the replica may lack expires). On a slave
  EXISTS counts expired keys and RANDOMKEY never returns when all keys are expired
  (`ReadsHideExpired` leaves the two out there). SWAPDB on a writable slave leaves the record of
  keys with expires behind (`SlaveKeysRemembered`). An expire, an eviction, MOVE and
  SWAPDB tell no watcher (`ExecUnmodified` takes the value after them, ghost `quiet`).
  A scenario of `MC_Data` holds each of these cases. A write refused by a read-only
  slave inside MULTI does not flag the transaction; that one has no scenario.
* `dict.c`: a scan that overlaps a shrinking rehash can miss an element
  (836-912, comment at 761; `ScanComplete` speaks of scans that met none).
  `quicklist.c`: with `list-compress-depth` a node left decompressed by a read can be
  compressed while it is the head or the tail, and the next push or pop works on
  compressed bytes (246, 596, 675, 1352; `QlExact` leaves such lists out once they are
  corrupt). `rax.c`: `raxSeek` with `<` or `<=` steps back too far when the key ends in
  the middle of a compressed node that is a key.
* `aof.c`, `replication.c`: a server that waits for its first rewrite after a
  synchronization has an AOF of its former dataset (`restartAOF`,
  `replication.c:1092-1102`; `RecoversPrefix` leaves it out). An AOF that ends in the
  first command behind its RDB preamble is truncated to nothing, since `valid_up_to`
  is still 0 (`aof.c:637`, 785), and the start after the next loads an empty dataset
  (ghost `aof.cut`, left out by `AofReplays`, `DurableReplies` and `RecoversPrefix`;
  `PreambleScenario`). A transaction cut in the middle is loaded in part, as the loader
  calls `cmd->proc` for each command (`aof.c:743`). WAIT counts nothing for a write made
  before the first slave.
* `networking.c`: the end of a pause queues a client that has just been unblocked a
  second time (1985-1994; `ListsExact`, ghost `twice`, `PauseBlockScenario`). A client
  that sends more behind a big argument during a pause is closed, as the read asks
  for 0 bytes (1369-1389; `ClosedForReason`, reason `held`, `PauseBigScenario`).

## Not modelled

* `hw1` (CSV scripts), `hw2` (a schema without procedures), `ec2` (one query), `hw4` (a
  document) and the player cache of `hw5`: sequential and without state of their
  own; the reasons are in `PROJECT.json`. UPDATE and DELETE typed by a user outside
  the hw3 procedures. The timestamp column of `ec1`, which no statement reads.
* MySQL itself and Connector/J: the rules above are all that is assumed.
* Of Redis: modules and Lua except how scripts are propagated; GEO and HyperLogLog
  (numerical approximations); the RDB encoding, LZF and byte layouts; command line
  tools, configuration parsing, reports; polling backends other than epoll; joining and
  forgetting cluster nodes and the cluster's Pub/Sub bus; SENTINEL SET, MONITOR and
  REMOVE; `bioWaitStepOfType` and `bioKillThreads`, which normal operation never calls.
* Names, titles, log messages, character sets, column widths, explicit transactions
  and other isolation levels (no program uses them).

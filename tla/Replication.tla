---------------------------- MODULE Replication ----------------------------
(* Master-slave replication of Redis (replication.c): the replication ID and *)
(* offset, the backlog ring, PSYNC with its partial and full resyncs, the    *)
(* disk and the diskless RDB transfer, chained slaves, SLAVEOF, restarts     *)
(* from an RDB file, EVALSHA propagation and WAIT.                           *)
(*                                                                           *)
(* A unit of the replication stream (a command) stands for its bytes, so     *)
(* offsets count units.  A node's dataset is the sequence of the writes it   *)
(* executed, each with the database it went to: two nodes agree iff these    *)
(* sequences are equal.  The whole server is single threaded: every callback *)
(* of its event loop is one action.                                          *)
EXTENDS Integers, Sequences, FiniteSets, SequencesExt, FiniteSetsExt

CONSTANTS Nil,        \* a NULL pointer, an unset value
          Scenarios   \* the initial set-ups and budgets to explore

VARIABLES node,    \* node[n]: the `server` structure of the process n
          conn,    \* conn[c]: one slave-to-master connection, both its ends
          nextid,  \* source of fresh random replication IDs
          bud,     \* what the environment may still do
          waiter,  \* the client that issues WAIT on a master
          had,     \* ghost: had[v], the nodes that ever executed the write v
          scen     \* the scenario of this behaviour

vars == <<node, conn, nextid, bud, waiter, had, scen>>

Node == DOMAIN node
Conn == DOMAIN conn

\* The two values of c->argv[1] in PSYNC and of server.replid2 that name no
\* history: "?" and the forty zeros of clearReplicationId2.
AnyId == 0
ZeroId == -1

World == [n |-> node, c |-> conn, i |-> nextid]

----------------------------------------------------------------------------
(* Stream units and datasets *)

Sel(db) == [t |-> "select", db |-> db]
Unit(t, v) == [t |-> t, v |-> v]

FreeConn == [slave |-> Nil, master |-> Nil, up |-> FALSE, open |-> FALSE,
             st |-> "none", q |-> <<>>, out |-> <<>>, req |-> Nil, ack |-> Nil,
             init |-> 0, ackoff |-> 0, onack |-> FALSE, bulk |-> Nil]

\* The slaves of n in the state st or one of several (server.slaves is walked
\* in list order; no step depends on that order).
SlavesIn(w, n, states) ==
  {c \in DOMAIN w.c : w.c[c].master = n /\ w.c[c].st \in states}
SlaveStates == {"start", "end", "bulk", "online"}
Slaves(w, n) == SlavesIn(w, n, SlaveStates)

\* changeReplicationId, clearReplicationId2.
NewId(w, n) ==
  [w EXCEPT !.n[n].id = w.i, !.n[n].id2 = ZeroId, !.n[n].off2 = -1, !.i = @ + 1]

\* createReplicationBacklog: an empty ring whose first unit will be the next.
CreateBacklog(nd) ==
  [nd EXCEPT !.bl = [buf |-> [p \in 0..(scen.backlog - 1) |-> Nil], idx |-> 0,
                     hist |-> 0, off |-> nd.off + 1]]

FreeBacklog(nd) == [nd EXCEPT !.bl = Nil]

\* feedReplicationBacklog: copy at idx, wrapping; the history is what is left.
FeedBacklog(nd, us) ==
  LET b == nd.bl
      size == scen.backlog
      at(p) == {k \in 1..Len(us) : (b.idx + k - 1) % size = p}
      hist == Min({b.hist + Len(us), size})
  IN [nd EXCEPT !.off = @ + Len(us),
                !.bl = [buf |-> [p \in 0..(size - 1) |->
                                  IF at(p) = {} THEN b.buf[p] ELSE us[Max(at(p))]],
                        idx |-> (b.idx + Len(us)) % size,
                        hist |-> hist,
                        off |-> nd.off + Len(us) - hist + 1]]

\* addReplyReplicationBacklog: the units of the ring from `offset` on.
BacklogFrom(b, offset) ==
  LET size == scen.backlog
      skip == offset - b.off
      j == (b.idx + (size - b.hist) + skip) % size
  IN [k \in 1..(b.hist - skip) |-> b.buf[(j + k - 1) % size]]

\* Output for a slave leaves at once when its write handler is installed
\* (prepareClientToWrite), and is kept while the RDB has not been sent.
AddToSlave(k, us) ==
  IF k.st = "online" /\ ~k.onack
  THEN IF k.up THEN [k EXCEPT !.q = @ \o us] ELSE k
  ELSE [k EXCEPT !.out = @ \o us]

\* Every slave that already has its snapshot point gets the units.
FeedConns(w, n, us) ==
  [w EXCEPT !.c = [c \in DOMAIN @ |->
     IF c \in SlavesIn(w, n, SlaveStates \ {"start"}) THEN AddToSlave(@[c], us) ELSE @[c]]]

\* replicationFeedSlaves: a SELECT first when the database changed, then the
\* command, to the backlog and to every slave.  Only the top level master
\* generates the stream.
Feed(w, n, db, us) ==
  LET nd == w.n[n]
      all == IF nd.sel = db THEN us ELSE <<Sel(db)>> \o us
  IN IF nd.host # Nil \/ (nd.bl = Nil /\ Slaves(w, n) = {})
     THEN w
     ELSE FeedConns([w EXCEPT !.n[n] = FeedBacklog([nd EXCEPT !.sel = db], all)], n, all)

\* replicationFeedSlavesFromMasterStream: a slave passes on, unchanged, what
\* it applied.
FeedFromMasterStream(w, n, us) ==
  FeedConns([w EXCEPT !.n[n] = IF @.bl = Nil THEN @ ELSE FeedBacklog(@, us)], n, us)

----------------------------------------------------------------------------
(* Closing connections *)

\* One end of the connection c is gone: what was already sent can still
\* arrive, nothing more can be sent.
CloseEnd(w, c, end) ==
  LET k == w.c[c]
      r == IF end = "slave"
           THEN [k EXCEPT !.up = FALSE, !.open = FALSE, !.q = <<>>]
           ELSE [k EXCEPT !.up = FALSE, !.st = "none", !.out = <<>>, !.req = Nil,
                          !.ack = Nil, !.init = 0, !.ackoff = 0, !.onack = FALSE,
                          !.bulk = Nil]
  IN [w EXCEPT !.c[c] = IF ~r.open /\ r.st = "none" /\ r.req = Nil THEN FreeConn ELSE r]

\* disconnectSlaves: freeClient on every slave.
DisconnectSlaves(w, n) ==
  FoldSet(LAMBDA c, x : CloseEnd(x, c, "master"), w, Slaves(w, n))

NoMaster == [id |-> AnyId, off |-> -1, db |-> 0, multi |-> Nil, pend |-> <<>>]

\* freeClient of the master: replicationCacheMaster keeps the client, rolls it
\* back to the offset applied so far, drops the open transaction, and
\* replicationHandleMasterDisconnection asks for a new connection.
CacheMaster(w, n) ==
  LET nd == w.n[n]
  IN [CloseEnd(w, nd.link, "slave") EXCEPT
        !.n[n] = [nd EXCEPT !.cached = [nd.master EXCEPT !.multi = Nil, !.pend = <<>>],
                            !.master = Nil, !.link = 0, !.rs = "connect"]]

Handshake == {"connecting", "pong", "auth", "port", "ip", "capa", "psync"}

\* cancelReplicationHandshake (undoConnectWithMaster,
\* replicationAbortSyncTransfer).
CancelHandshake(w, n) ==
  IF w.n[n].rs \in Handshake \union {"transfer"}
  THEN [CloseEnd(w, w.n[n].link, "slave") EXCEPT !.n[n].link = 0, !.n[n].rs = "connect"]
  ELSE w

----------------------------------------------------------------------------
(* The master's side of a synchronisation *)

\* rdbPopulateSaveInfo: the replication state an RDB file may carry.  A master
\* whose stream has no backlog, or a slave that never synced, has none.
SaveInfo(nd) ==
  LET of(db) == [id |-> nd.id, off |-> nd.off, db |-> db]
  IN IF nd.host = Nil
     THEN IF nd.bl = Nil THEN Nil ELSE of(IF nd.sel = -1 THEN 0 ELSE nd.sel)
     ELSE IF nd.master # Nil THEN of(nd.master.db)
     ELSE IF nd.cached # Nil THEN of(nd.cached.db) ELSE Nil

\* The RDB a child forked now writes.  The scripts are saved only together
\* with the replication information (rdbSaveRio).
Snapshot(nd) == LET rsi == SaveInfo(nd) IN
  [data |-> nd.data, rsi |-> rsi, lua |-> nd.lua /\ rsi # Nil]

\* replicationSetupSlaveForFullResync: from here on the slave accumulates the
\* stream, which must restart with a SELECT.
SetupFullResync(w, c, off) ==
  LET n == w.c[c].master
      full == Unit("full", [id |-> w.n[n].id, off |-> off])
  IN [w EXCEPT !.n[n].sel = -1,
               !.c[c] = [@ EXCEPT !.init = off, !.st = "end",
                                  !.q = IF w.c[c].up THEN Append(@, full) ELSE @]]

\* replicationScriptCacheFlush, replicationScriptCacheAdd, for the one script.
ScriptCacheFlush(nd) == [nd EXCEPT !.known = FALSE]
ScriptCacheAdd(nd) == [nd EXCEPT !.known = TRUE]

\* rdbSaveToSlavesSockets: the child writes the RDB to every slave's socket.
SaveToSockets(conns, waiting, snap) ==
  [c \in DOMAIN conns |-> IF c \in waiting /\ conns[c].up
                          THEN [conns[c] EXCEPT !.q = Append(@, Unit("bulk", snap))]
                          ELSE conns[c]]

\* startBgsaveForReplication: every slave waiting for a BGSAVE joins the one
\* that is forked now, and the script cache is flushed since they know no
\* script.  When the fork fails, or there is nothing to fork from, they are
\* answered with an error and closed.  A diskless child writes its RDB
\* straight to their sockets.
StartBgsave(w, n, ok) ==
  LET nd == w.n[n]
      waiting == SlavesIn(w, n, {"start"})
      snap == Snapshot(nd)
      joined == FoldSet(LAMBDA c, x : SetupFullResync(x, c, nd.off), w, waiting)
      told == [w EXCEPT !.c = [c \in DOMAIN @ |->
                 IF c \in waiting /\ @[c].up
                 THEN [@[c] EXCEPT !.q = Append(@, Unit("err", 0))] ELSE @[c]]]
  IN IF ok /\ snap.rsi # Nil
     THEN [joined EXCEPT !.n[n] = ScriptCacheFlush([@ EXCEPT
                           !.child = [socket |-> scen.diskless, snap |-> snap]]),
                         !.c = IF scen.diskless THEN SaveToSockets(@, waiting, snap) ELSE @]
     ELSE FoldSet(LAMBDA c, x : CloseEnd(x, c, "master"), told, waiting)

\* Mutant: replid2 is honoured whatever the offset.
PartialOk_AnyOffset(nd, req) ==
  /\ req.id \in {nd.id, nd.id2}
  /\ nd.bl # Nil
  /\ req.off >= nd.bl.off
  /\ req.off <= nd.bl.off + nd.bl.hist

\* masterTryPartialResynchronization, the test: the slave shares our history,
\* or the one we inherited up to where we left it, and the backlog still has
\* what it misses.
PartialOk(nd, req) ==
  /\ req.id = nd.id \/ (req.id = nd.id2 /\ req.off <= nd.off2)
  /\ nd.bl # Nil
  /\ req.off >= nd.bl.off
  /\ req.off <= nd.bl.off + nd.bl.hist

\* masterTryPartialResynchronization, the answer: the slave is online and gets
\* the backlog from its offset.
ContinuePartial(w, c) ==
  LET k == w.c[c]
      nd == w.n[k.master]
      units == <<Unit("continue", nd.id)>> \o BacklogFrom(nd.bl, k.req.off)
  IN [w EXCEPT !.c[c] = [k EXCEPT !.st = "online", !.req = Nil,
                                  !.q = IF k.up THEN units ELSE @]]

\* syncCommand after a failed partial resync: the first slave of a server
\* without backlog starts a new history; then the slave joins the disk BGSAVE
\* in progress if another slave recorded the stream since its fork, waits for
\* the next one, or starts one.
FullResync(w0, c, ok) ==
  LET n == w0.c[c].master
      w1 == [w0 EXCEPT !.c[c].st = "start", !.c[c].req = Nil]
      w == IF Cardinality(Slaves(w1, n)) = 1 /\ w1.n[n].bl = Nil
           THEN LET x == NewId(w1, n) IN [x EXCEPT !.n[n] = CreateBacklog(@)]
           ELSE w1
      nd == w.n[n]
      peers == SlavesIn(w, n, {"end"})
  IN IF nd.child # Nil
     THEN IF ~nd.child.socket /\ peers # {}
          THEN LET p == w.c[Min(peers)] IN
               SetupFullResync([w EXCEPT !.c[c].out = p.out], c, p.init)
          ELSE w
     ELSE IF scen.diskless THEN w ELSE StartBgsave(w, n, ok)

\* syncCommand: a slave serves others only while connected to its own master.
SyncCommand(w, c, ok) ==
  LET k == w.c[c]
      nd == w.n[k.master]
  IN IF nd.host # Nil /\ nd.rs # "connected"
     THEN [w EXCEPT !.c[c] = [k EXCEPT !.req = Nil,
                                       !.q = IF k.up THEN Append(@, Unit("nolink", 0)) ELSE @]]
     ELSE IF PartialOk(nd, k.req) THEN ContinuePartial(w, c)
     ELSE FullResync(w, c, ok)

\* putSlaveOnline once the RDB is delivered: the accumulated stream follows.
PutSlaveOnline(k) ==
  [k EXCEPT !.st = "online", !.onack = FALSE, !.bulk = Nil, !.init = 0,
            !.q = IF k.up THEN @ \o k.out ELSE @, !.out = <<>>]

\* updateSlavesWaitingBgsave: the slaves of the finished child get the file
\* (disk) or go online when they acknowledge (socket); those that came too late
\* for it start another.
UpdateSlavesWaiting(w, n, ok, child, forkok) ==
  LET done == SlavesIn(w, n, {"end"})
      next(k) == IF child.socket
                 THEN [k EXCEPT !.st = "online", !.onack = TRUE, !.init = 0]
                 ELSE [k EXCEPT !.st = "bulk", !.bulk = w.n[n].rdb]
      x == IF ok \/ child.socket
           THEN [w EXCEPT !.c = [c \in DOMAIN @ |-> IF c \in done THEN next(@[c]) ELSE @[c]]]
           ELSE FoldSet(LAMBDA c, y : CloseEnd(y, c, "master"), w, done)
  IN IF SlavesIn(x, n, {"start"}) = {} THEN x ELSE StartBgsave(x, n, forkok)

\* backgroundSaveDoneHandlerDisk, backgroundSaveDoneHandlerSocket: the latter
\* first drops every slave its child reports as not fully served.
BgsaveDone(w0, n, ok, forkok) ==
  LET child == w0.n[n].child
      failed == {c \in SlavesIn(w0, n, {"end"}) : child.socket /\ (~ok \/ ~w0.c[c].up)}
      w1 == FoldSet(LAMBDA c, x : CloseEnd(x, c, "master"), w0, failed)
      w == [w1 EXCEPT !.n[n].child = Nil,
                      !.n[n].rdb = IF ok /\ ~child.socket THEN child.snap ELSE @]
  IN UpdateSlavesWaiting(w, n, ok, child, forkok)

----------------------------------------------------------------------------
(* The slave's side *)

\* replicationSendAck; an acknowledgement that repeats the last one received
\* changes nothing at the other end.
SendAck(w, n) ==
  LET nd == w.n[n] IN
  IF nd.link = 0 THEN w
  ELSE LET k == w.c[nd.link] IN
       IF k.up /\ (nd.master.off > k.ackoff \/ k.onack)
       THEN [w EXCEPT !.c[nd.link].ack = nd.master.off] ELSE w

Exec(nd, v) == [nd EXCEPT !.data = Append(@, <<nd.master.db, v>>)]

\* One command of the master's stream.  Inside MULTI commands are queued.
\* EVALSHA fails on a server that does not know the script.
Execute(nd, u) ==
  LET m == nd.master IN
  CASE u.t = "select" -> [nd EXCEPT !.master.db = u.db]
    [] u.t = "write" /\ m.multi # Nil -> [nd EXCEPT !.master.multi = Append(@, u.v)]
    [] u.t = "write" /\ m.multi = Nil -> Exec(nd, u.v)
    [] u.t = "multi" -> [nd EXCEPT !.master.multi = <<>>]
    [] u.t = "exec"  -> FoldLeft(Exec, [nd EXCEPT !.master.multi = Nil], m.multi)
    [] u.t = "eval"  -> [Exec(nd, u.v) EXCEPT !.lua = TRUE]
    [] u.t = "evalsha" -> IF nd.lua THEN ScriptCacheAdd(Exec(nd, u.v)) ELSE nd
    [] OTHER -> nd

\* readQueryFromClient and processInputBuffer on the master's connection: the
\* applied offset advances, and the units are passed on, outside MULTI only.
ReadStream(w, n) ==
  LET nd == w.n[n]
      u == Head(w.c[nd.link].q)
      x == IF u.t = "getack" THEN SendAck(w, n) ELSE w
      e == Execute(nd, u)
      pend == Append(e.master.pend, u)
      y == [x EXCEPT !.n[n] = e, !.c[nd.link].q = Tail(@)]
  IN IF e.master.multi # Nil
     THEN [y EXCEPT !.n[n].master.pend = pend]
     ELSE FeedFromMasterStream([y EXCEPT !.n[n].master.pend = <<>>,
                                         !.n[n].master.off = @ + Len(pend)], n, pend)

\* slaveTryPartialResynchronization, reading the reply, and what
\* syncWithMaster makes of it: try later; forget the old history and wait for
\* the RDB (after an error, by SYNC); or resume the cached master, taking over
\* its new ID and keeping the old one for our own slaves, who must reconnect.
PsyncReply(w0, n) ==
  LET nd == w0.n[n]
      u == Head(w0.c[nd.link].q)
      w == [w0 EXCEPT !.c[nd.link].q = Tail(@)]
      renamed == [nd EXCEPT !.id2 = nd.cached.id, !.off2 = nd.off + 1, !.id = u.v,
                            !.cached.id = u.v]
      resumed(x) == [x EXCEPT !.master = x.cached, !.cached = Nil, !.rs = "connected"]
      ring(x) == IF x.bl = Nil THEN CreateBacklog(x) ELSE x
      full(id, off) == DisconnectSlaves([w EXCEPT
        !.n[n] = FreeBacklog([nd EXCEPT !.cached = Nil, !.initid = id, !.initoff = off,
                                        !.rs = "transfer"])], n)
  IN CASE u.t = "nolink" -> CancelHandshake(w, n)
       [] u.t = "full" -> full(u.v.id, u.v.off)
       [] u.t = "err" -> full(AnyId, -1)
       [] u.t = "continue" /\ u.v = nd.cached.id -> [w EXCEPT !.n[n] = ring(resumed(nd))]
       [] u.t = "continue" /\ u.v # nd.cached.id ->
            DisconnectSlaves([w EXCEPT !.n[n] = ring(resumed(renamed))], n)

\* readSyncBulkPayload at the end of the payload: the file replaces our RDB,
\* the dataset is emptied and loaded, and the master client starts at the
\* offset the master announced.  A failed load leaves an empty dataset.
LoadPayload(w0, n, ok) ==
  LET snap == Head(w0.c[w0.n[n].link].q).v
      w == [w0 EXCEPT !.c[w0.n[n].link].q = Tail(@), !.n[n].rdb = snap]
      nd == w.n[n]
      loaded == [nd EXCEPT
        !.data = snap.data, !.lua = @ \/ snap.lua, !.rs = "connected",
        !.master = [NoMaster EXCEPT !.id = nd.initid, !.off = nd.initoff, !.db = snap.rsi.db],
        !.id = nd.initid, !.off = nd.initoff, !.id2 = ZeroId, !.off2 = -1,
        !.initid = AnyId, !.initoff = -1]
  IN IF ok THEN [w EXCEPT !.n[n] = IF nd.bl = Nil THEN CreateBacklog(loaded) ELSE loaded]
     ELSE CancelHandshake([w EXCEPT !.n[n].data = <<>>], n)

\* connectWithMaster.
ConnectWithMaster(w, n, c) ==
  [w EXCEPT !.n[n].rs = "connecting", !.n[n].link = c,
            !.c[c] = [FreeConn EXCEPT !.slave = n, !.master = w.n[n].host,
                                      !.up = TRUE, !.open = TRUE]]

\* slaveTryPartialResynchronization, writing the request.
PsyncRequest(nd) ==
  IF nd.cached = Nil THEN [id |-> AnyId, off |-> -1]
  ELSE [id |-> nd.cached.id, off |-> nd.cached.off + 1]

\* The handshake of syncWithMaster: PING, AUTH, the two addresses and the
\* capabilities, one reply each, then PSYNC with the cached history if any.
\* The replies before it change nothing else: some scenarios take them in one
\* step.
HandshakeStep(w, n) ==
  LET nd == w.n[n]
      next == [connecting |-> "pong", pong |-> "auth", auth |-> "port", port |-> "ip",
               ip |-> "capa", capa |-> "psync"][nd.rs]
      skip == IF scen.steps THEN next ELSE "psync"
  IN [w EXCEPT !.n[n].rs = skip,
               !.c[nd.link].req = IF skip = "psync" THEN PsyncRequest(nd) ELSE @]

\* replicationCacheMasterUsingMyself: the master's own history as a cached
\* master, in the default database.
Myself(nd) == [NoMaster EXCEPT !.id = nd.id, !.off = nd.off]

\* replicationSetMaster: a master that becomes a slave offers its own history
\* to the new master.
SetMaster(w0, n, m) ==
  LET was == w0.n[n].host = Nil
      w1 == [w0 EXCEPT !.n[n].host = m]
      w2 == IF w1.n[n].master # Nil THEN CacheMaster(w1, n) ELSE w1
      w == CancelHandshake(DisconnectSlaves(w2, n), n)
      nd == w.n[n]
  IN [w EXCEPT !.n[n].cached = IF was THEN Myself(nd) ELSE @, !.n[n].rs = "connect"]

\* shiftReplicationId: the old history becomes the second one, valid up to
\* and including the current offset.
ShiftId(w, n) ==
  [w EXCEPT !.n[n] = [@ EXCEPT !.id2 = w.n[n].id, !.off2 = w.n[n].off + 1, !.id = w.i],
            !.i = @ + 1]

\* replicationUnsetMaster: the stream of the new master restarts with a SELECT.
UnsetMaster(w0, n) ==
  LET w1 == [ShiftId(w0, n) EXCEPT !.n[n].host = Nil]
      w2 == IF w1.n[n].master # Nil THEN CacheMaster(w1, n) ELSE w1
      w == DisconnectSlaves(CancelHandshake([w2 EXCEPT !.n[n].cached = Nil], n), n)
  IN [w EXCEPT !.n[n].rs = "none", !.n[n].sel = -1]

NewNode(id, m) ==
  [host |-> m, rs |-> IF m = Nil THEN "none" ELSE "connect", link |-> 0, id |-> id,
   id2 |-> ZeroId, off2 |-> -1, off |-> 0, bl |-> Nil, sel |-> -1, master |-> Nil,
   cached |-> Nil, initid |-> AnyId, initoff |-> -1, data |-> <<>>, child |-> Nil,
   rdb |-> Nil, lua |-> FALSE, known |-> FALSE]

\* loadDataFromDisk: a restarted slave resumes the history its RDB names.
LoadDataFromDisk(fresh, f) ==
  LET x == [fresh EXCEPT !.data = f.data, !.lua = f.lua, !.rdb = f]
  IN IF fresh.host = Nil \/ f.rsi = Nil THEN x
     ELSE LET y == [x EXCEPT !.id = f.rsi.id, !.off = f.rsi.off]
          IN [y EXCEPT !.cached = [Myself(y) EXCEPT !.db = f.rsi.db]]

\* The process dies, its sockets with it, and starts again with the master
\* its configuration names.
RestartNode(w, n, m) ==
  LET fresh == NewNode(w.i, m)
      w1 == IF w.n[n].link = 0 THEN w ELSE CloseEnd(w, w.n[n].link, "slave")
      asked == {c \in DOMAIN w1.c : w1.c[c].master = n /\ w1.c[c].st = "none"}
      w2 == DisconnectSlaves([w1 EXCEPT !.c = [c \in DOMAIN @ |->
              IF c \in asked THEN [@[c] EXCEPT !.up = FALSE, !.req = Nil] ELSE @[c]]], n)
  IN [w2 EXCEPT !.i = @ + 1,
                !.n[n] = IF w.n[n].rdb = Nil THEN fresh
                         ELSE LoadDataFromDisk(fresh, w.n[n].rdb)]

----------------------------------------------------------------------------
(* WAIT *)

\* replicationCountAcksByOffset counts slave connections.
Acked(w, n, off) ==
  {<<c, w.c[c].slave>> : c \in {d \in SlavesIn(w, n, {"online"}) : w.c[d].ackoff >= off}}

Answer(cl, links) == [cl EXCEPT !.st = "done", !.links = links]

\* processClientsWaitingReplicas: a client that waits for fewer slaves and an
\* older offset than one just satisfied needs no count of its own.
ProcessWaiting(w, n, wt) ==
  LET step(s, k) ==
        LET cl == s.cl[k]
            links == Acked(w, n, cl.woff)
            rest == SelectSeq(s.q, LAMBDA x : x # k)
        IN IF s.last # Nil /\ s.last.off > cl.woff /\ Cardinality(s.last.links) > cl.num
           THEN [s EXCEPT !.cl[k] = Answer(cl, s.last.links), !.q = rest]
           ELSE IF Cardinality(links) >= cl.num
           THEN [s EXCEPT !.cl[k] = Answer(cl, links), !.q = rest,
                          !.last = [off |-> cl.woff, links |-> links]]
           ELSE s
      end == FoldLeft(step, [cl |-> wt.cl, q |-> wt.q, last |-> Nil], wt.q)
  IN [cl |-> end.cl, q |-> end.q]

\* disconnectAllBlockedClients: the clients blocked on n get an error.
DropWaiters(wt, n) ==
  LET gone == {k \in DOMAIN wt.cl : wt.cl[k].node = n /\ wt.cl[k].st # "done"}
  IN [cl |-> [k \in DOMAIN wt.cl |-> IF k \in gone
                THEN [wt.cl[k] EXCEPT !.st = "done", !.links = {}] ELSE wt.cl[k]],
      q |-> SelectSeq(wt.q, LAMBDA x : x \notin gone)]

----------------------------------------------------------------------------
(* The actions *)

\* ghost: who has executed which write.
Holds(nodes, v) == {n \in DOMAIN nodes : \E k \in DOMAIN nodes[n].data : nodes[n].data[k][2] = v}

Becomes(w) ==
  /\ node' = w.n /\ conn' = w.c /\ nextid' = w.i
  /\ had' = [v \in DOMAIN had |-> had[v] \union Holds(w.n, v)]
  /\ UNCHANGED scen

Spend(what) == bud[what] > 0 /\ bud' = [bud EXCEPT ![what] = @ - 1]
\* A failure the environment may choose, if it has some left.
MayFail(what, ok) == IF ok THEN UNCHANGED bud ELSE Spend(what)

\* How a master propagates a client's write: as it is, as a transaction, as
\* EVAL, or as EVALSHA when every slave knows the script (evalGenericCommand
\* and the replication script cache).
Propagated(nd, kind, v) ==
  CASE kind = "write" -> <<Unit("write", v)>>
    [] kind = "tx" -> <<Unit("multi", 0), Unit("write", v), Unit("exec", 0)>>
    [] kind = "eval" -> <<Unit("eval", v)>>
    [] kind = "evalsha" -> <<Unit(IF nd.known THEN "evalsha" ELSE "eval", v)>>

\* A client writes to the master n.  The k-th write is that of the client k
\* which will WAIT for it, if there is one: c->woff is the offset after propagation.  The scenario lists the
\* databases and the kinds of the writes, which may reach any master.
ClientWrite(n) ==
  LET v == bud.wrote + 1
      k == IF v <= Len(scen.waits) THEN v ELSE 0
      db == scen.writes[v].db
      kind == scen.writes[v].kind
  IN
  /\ node[n].host = Nil /\ v <= Len(scen.writes)
  /\ kind = "evalsha" => node[n].lua
  /\ bud' = [bud EXCEPT !.wrote = v]
  /\ LET w == Feed(World, n, db, Propagated(node[n], kind, v))
     IN /\ Becomes([w EXCEPT !.n[n] =
              [@ EXCEPT !.data = Append(@, <<db, v>>),
                        !.lua = @ \/ kind = "eval",
                        !.known = @ \/ kind = "evalsha"]])
        /\ IF k = 0 THEN UNCHANGED waiter
           ELSE waiter' = [waiter EXCEPT !.cl[k] =
                  [@ EXCEPT !.st = "wrote", !.node = n, !.woff = w.n[n].off, !.val = v]]

\* waitCommand, and beforeSleep which asks every slave for an acknowledgement
\* before the next event.
WaitCommand(k) ==
  LET cl == waiter.cl[k]
      links == Acked(World, cl.node, cl.woff)
  IN /\ cl.st = "wrote"
     /\ IF Cardinality(links) >= cl.num
        THEN /\ waiter' = [waiter EXCEPT !.cl[k] = Answer(cl, links)]
             /\ UNCHANGED <<node, conn, nextid, had, scen>>
        ELSE /\ waiter' = [cl |-> [waiter.cl EXCEPT ![k].st = "blocked"],
                           q |-> Append(waiter.q, k)]
             /\ Becomes(Feed(World, cl.node, node[cl.node].sel, <<Unit("getack", 0)>>))
     /\ UNCHANGED bud

\* replyToBlockedClientTimedOut for a WAIT: the count so far.
WaitTimeout(k) ==
  LET cl == waiter.cl[k] IN
  /\ cl.st = "blocked"
  /\ Spend("timeouts")
  /\ waiter' = [cl |-> [waiter.cl EXCEPT ![k] = Answer(cl, Acked(World, cl.node, cl.woff))],
                q |-> SelectSeq(waiter.q, LAMBDA x : x # k)]
  /\ UNCHANGED <<node, conn, nextid, had, scen>>

\* replconfCommand ACK, then beforeSleep.
ReceiveAck(c) ==
  LET k == conn[c]
      n == k.master
      acked == [k EXCEPT !.ackoff = Max({@, k.ack}), !.ack = Nil]
      w == [World EXCEPT !.c[c] =
              IF k.st = "online" /\ k.onack THEN PutSlaveOnline(acked) ELSE acked]
  IN /\ k.ack # Nil /\ k.st # "none"
     /\ Becomes(w)
     /\ waiter' = ProcessWaiting(w, n, waiter)
     /\ UNCHANGED bud

\* The request PSYNC arrives at the master end of c.
ReceivePsync(c, ok) ==
  /\ conn[c].req # Nil
  /\ MayFail("fails", ok)
  /\ Becomes(SyncCommand(World, c, ok))
  /\ UNCHANGED waiter

\* sendBulkToSlave: the last piece of the file is written, or the write fails.
SendBulkToSlave(c) ==
  /\ conn[c].st = "bulk"
  /\ LET w == [World EXCEPT !.c[c].q = Append(@, Unit("bulk", conn[c].bulk))]
     IN Becomes(IF conn[c].up THEN [w EXCEPT !.c[c] = PutSlaveOnline(@)]
                ELSE CloseEnd(World, c, "master"))
  /\ UNCHANGED <<bud, waiter>>

\* The RDB child exits.
ChildExits(n, ok) ==
  /\ node[n].child # Nil
  /\ MayFail("fails", ok)
  /\ Becomes(BgsaveDone(World, n, ok, TRUE))
  /\ UNCHANGED waiter

\* bgsaveCommand.
Bgsave(n) ==
  /\ node[n].child = Nil
  /\ Spend("bgsaves")
  /\ Becomes([World EXCEPT !.n[n].child = [socket |-> FALSE, snap |-> Snapshot(node[n])]])
  /\ UNCHANGED waiter

\* replicationCron.  The environment chooses which timers have run out: `to`,
\* that of the link to the master; `late`, those of slaves; `idle`, that of a
\* backlog without slaves.
ReplicationCron(n, to, ping, late, idle, ok) ==
  LET free == {c \in Conn : conn[c] = FreeConn}
      linked == IF to /\ node[n].rs = "connected" THEN CacheMaster(World, n)
                ELSE IF to THEN CancelHandshake(World, n) ELSE World
      connected(w) == IF w.n[n].rs = "connect" /\ free # {} THEN ConnectWithMaster(w, n, Min(free))
                      ELSE w
      acked(w) == IF w.n[n].master # Nil THEN SendAck(w, n) ELSE w
      pinged(w) == IF ping THEN Feed(w, n, node[n].sel, <<Unit("ping", 0)>>) ELSE w
      closed(w) == FoldSet(LAMBDA c, x : CloseEnd(x, c, "master"), w, late)
      trimmed(w) == IF idle THEN [NewId(w, n) EXCEPT !.n[n] = FreeBacklog(@)] ELSE w
      flushed(w) == IF Slaves(w, n) = {} THEN [w EXCEPT !.n[n] = ScriptCacheFlush(@)] ELSE w
      saving(w) == IF w.n[n].child = Nil /\ SlavesIn(w, n, {"start"}) # {}
                   THEN StartBgsave(w, n, ok) ELSE w
  IN /\ to => node[n].rs \in Handshake \union {"transfer", "connected"}
     /\ ping => Slaves(World, n) # {}
     /\ late \subseteq SlavesIn(World, n, {"online"})
     /\ idle => Slaves(World, n) = {} /\ node[n].bl # Nil /\ node[n].host = Nil
     /\ Becomes(saving(flushed(trimmed(closed(pinged(acked(connected(linked))))))))
     /\ UNCHANGED waiter

\* A call with no timer out of time, and one with one of them.
CronQuiet(n) == ReplicationCron(n, FALSE, FALSE, {}, FALSE, TRUE) /\ UNCHANGED bud
CronPing(n) == ReplicationCron(n, FALSE, TRUE, {}, FALSE, TRUE) /\ Spend("pings")
CronTimeout(n) ==
  /\ Spend("timeouts")
  /\ \/ ReplicationCron(n, TRUE, FALSE, {}, FALSE, TRUE)
     \/ ReplicationCron(n, FALSE, FALSE, {}, TRUE, TRUE)
     \/ \E c \in Conn : ReplicationCron(n, FALSE, FALSE, {c}, FALSE, TRUE)
CronForkFails(n) ==
  /\ SlavesIn(World, n, {"start"}) # {} /\ node[n].child = Nil
  /\ Spend("fails") /\ ReplicationCron(n, FALSE, FALSE, {}, FALSE, FALSE)

\* syncWithMaster on the slave n, before the reply to PSYNC.
SyncWithMaster(n) ==
  /\ node[n].rs \in Handshake \ {"psync"} /\ conn[node[n].link].up
  /\ Becomes(HandshakeStep(World, n))
  /\ UNCHANGED <<bud, waiter>>

Received(n) == node[n].link # 0 /\ conn[node[n].link].q # <<>>

\* syncWithMaster with the reply to PSYNC.
ReadPsyncReply(n) ==
  /\ node[n].rs = "psync" /\ Received(n)
  /\ Becomes(PsyncReply(World, n))
  /\ UNCHANGED <<bud, waiter>>

\* readSyncBulkPayload.
ReadBulk(n, ok) ==
  /\ node[n].rs = "transfer" /\ Received(n)
  /\ MayFail("fails", ok)
  /\ Becomes(LoadPayload(World, n, ok))
  /\ UNCHANGED waiter

ReadCommand(n) ==
  /\ node[n].rs = "connected" /\ Received(n)
  /\ Becomes(ReadStream(World, n))
  /\ UNCHANGED <<bud, waiter>>

\* The slave reads end of file or an error from its link.
MasterLinkLost(n) ==
  /\ node[n].link # 0 /\ ~conn[node[n].link].up
  /\ Becomes(IF node[n].rs = "connected" THEN CacheMaster(World, n)
             ELSE CancelHandshake(World, n))
  /\ UNCHANGED <<bud, waiter>>

\* The master does: freeClient of a slave.
SlaveLinkLost(c) ==
  /\ ~conn[c].up /\ (conn[c].st # "none" \/ conn[c].req # Nil)
  /\ Becomes(CloseEnd(World, c, "master"))
  /\ UNCHANGED <<bud, waiter>>

\* The network loses the connection.
Drop(c) ==
  /\ conn[c].up /\ Spend("drops")
  /\ Becomes([World EXCEPT !.c[c].up = FALSE])
  /\ UNCHANGED waiter

\* slaveofCommand, as the scenario's operator uses it.
SlaveOf(n, m) ==
  /\ bud.ordered < Len(scen.orders) /\ scen.orders[bud.ordered + 1] = <<n, m>>
  /\ node[n].host # m
  /\ bud' = [bud EXCEPT !.ordered = @ + 1]
  /\ Becomes(IF m = Nil THEN UnsetMaster(World, n) ELSE SetMaster(World, n, m))
  /\ waiter' = IF m = Nil THEN waiter ELSE DropWaiters(waiter, n)

Restart(n, m) ==
  /\ <<n, m>> \in scen.restarts /\ Spend("restarts")
  /\ Becomes(RestartNode(World, n, m))
  /\ waiter' = DropWaiters(waiter, n)

----------------------------------------------------------------------------
\* A slave that synchronised, undisturbed, over the connection c.
Synchronise(w0, n, c) ==
  LET m == w0.n[n].host
      asked == [ConnectWithMaster(w0, n, c) EXCEPT !.c[c].req = [id |-> AnyId, off |-> -1],
                                                   !.n[n].rs = "psync"]
      saved == BgsaveDone(FullResync(asked, c, TRUE), m, TRUE, TRUE)
      sent == [saved EXCEPT !.c[c] = PutSlaveOnline([@ EXCEPT !.q =
                Append(@, Unit("bulk", saved.c[c].bulk))])]
  IN LoadPayload(PsyncReply(sent, n), n, TRUE)

\* The servers have just started; or, in a warm scenario, their slaves have
\* synchronised, one after the other.
Init ==
  /\ scen \in Scenarios
  /\ LET cold == [n |-> [n \in 1..Len(scen.hosts) |-> NewNode(n, scen.hosts[n])],
                  c |-> [c \in 1..scen.conns |-> FreeConn],
                  i |-> Len(scen.hosts) + 1]
         slaves == SelectSeq([n \in 1..Len(scen.hosts) |-> n], LAMBDA n : scen.hosts[n] # Nil)
         w == IF scen.warm
              THEN FoldLeft(LAMBDA x, n : Synchronise(x, n, n - 1), cold, slaves)
              ELSE cold
     IN node = w.n /\ conn = w.c /\ nextid = w.i
  /\ bud = scen.budget
  /\ waiter = [cl |-> [k \in 1..Len(scen.waits) |->
                 [st |-> "idle", node |-> 0, woff |-> 0, val |-> 0, num |-> scen.waits[k],
                  links |-> {}]], q |-> <<>>]
  /\ had = [v \in IF scen.waits = <<>> THEN {} ELSE 1..Len(scen.writes) |-> {}]

\* What a running process does by itself.
Progress(n) ==
  \/ CronQuiet(n) \/ SyncWithMaster(n) \/ ReadPsyncReply(n) \/ ReadBulk(n, TRUE)
  \/ ReadCommand(n) \/ MasterLinkLost(n) \/ ChildExits(n, TRUE)
  \/ \E c \in Conn : /\ conn[c].master = n
                     /\ \/ ReceivePsync(c, TRUE) \/ ReceiveAck(c) \/ SendBulkToSlave(c)
                        \/ SlaveLinkLost(c)

Next ==
  \/ \E n \in Node : Progress(n)
  \/ \E n \in Node : ClientWrite(n)
  \/ \E k \in DOMAIN waiter.cl : WaitCommand(k) \/ WaitTimeout(k)
  \/ \E n \in Node : CronPing(n) \/ CronTimeout(n) \/ CronForkFails(n) \/ Bgsave(n)
  \/ \E n \in Node : ReadBulk(n, FALSE) \/ ChildExits(n, FALSE)
  \/ \E c \in Conn : Drop(c) \/ ReceivePsync(c, FALSE)
  \/ \E n \in Node, m \in Node \union {Nil} : SlaveOf(n, m) \/ Restart(n, m)

Spec == Init /\ [][Next]_vars

\* What the event loop of the process n owes: a callback that is due, or the
\* next call of replicationCron.
Due(n) ==
  LET nd == node[n]
      mine == {c \in Conn : conn[c].master = n}
  IN [connect |-> nd.rs = "connect",
      handshake |-> nd.rs \in Handshake \ {"psync"} /\ conn[nd.link].up,
      read |-> Received(n),
      lost |-> nd.link # 0 /\ ~conn[nd.link].up,
      sendack |-> /\ nd.rs = "connected" /\ conn[nd.link].up /\ conn[nd.link].onack
                  /\ conn[nd.link].st = "online" /\ conn[nd.link].ack = Nil,
      child |-> nd.child # Nil,
      bgsave |-> nd.child = Nil /\ SlavesIn(World, n, {"start"}) # {},
      psync |-> \E c \in mine : conn[c].req # Nil,
      bulk |-> \E c \in mine : conn[c].st = "bulk",
      ack |-> \E c \in mine : conn[c].ack # Nil /\ conn[c].st # "none",
      drop |-> \E c \in mine : conn[c].st # "none" /\ ~conn[c].up]

\* Nothing stays due for ever: the event loop keeps running.  With finitely
\* many writes and faults this is what weak fairness of each callback gives.
\* The network and the operator promise nothing.
LoopFairness ==
  \A n \in 1..3 : \A what \in {"connect", "handshake", "read", "lost", "sendack", "child",
                                  "bgsave", "psync", "bulk", "ack", "drop"} :
       []<>(n \in Node => ~Due(n)[what])

FairSpec == Spec /\ LoopFairness

----------------------------------------------------------------------------
(* Properties *)

\* The fields of a server move together: a link exists exactly while a
\* handshake, a transfer or a stream uses it; a connected slave has a master
\* and a backlog, and its stream position is the server's own offset; cached
\* and live master exclude each other (the assertion of replicationCacheMaster).
TypeOK ==
  \A n \in Node : LET nd == node[n] IN
    /\ nd.rs \in Handshake \union {"none", "connect", "transfer", "connected"}
    /\ (nd.host = Nil) = (nd.rs = "none")
    /\ (nd.link # 0) = (nd.rs \notin {"none", "connect"})
    /\ nd.link # 0 => conn[nd.link].slave = n /\ conn[nd.link].open
    /\ (nd.master # Nil) = (nd.rs = "connected")
    /\ nd.master # Nil => nd.cached = Nil /\ nd.bl # Nil /\ nd.master.off = nd.off
                          /\ nd.master.id = nd.id
    /\ nd.cached # Nil => nd.cached.off = nd.off
    /\ Slaves(World, n) # {} => nd.bl # Nil

\* Executing, from the state of nd, everything in us.
Replay(nd, us) == FoldLeft(Execute, nd, us)

\* A slave that has executed what its link and the master's buffers still
\* hold has the master's dataset: no write is lost, repeated, reordered or
\* sent to another database by a partial or a full resync, by joining another
\* slave's BGSAVE, or by a transaction cut by a disconnection.
StreamExact ==
  \A c \in Conn : LET k == conn[c] IN
    k.up /\ k.st = "online" /\ node[k.slave].rs = "connected" =>
      Replay(node[k.slave], k.q \o k.out).data = node[k.master].data

\* A history is named once: whoever has a dataset under a replication ID and
\* an offset (a backlog, a cached master, an RDB file with replication
\* information) has the dataset that everybody else has there, and a smaller
\* offset names a prefix.  PSYNC is sound only because of this.
Claims ==
  UNION {LET nd == node[n] IN
           (IF nd.bl # Nil THEN {<<nd.id, nd.off, nd.data>>} ELSE {})
           \union (IF nd.cached # Nil THEN {<<nd.cached.id, nd.cached.off, nd.data>>} ELSE {})
           \union (IF nd.rdb # Nil /\ nd.rdb.rsi # Nil
                   THEN {<<nd.rdb.rsi.id, nd.rdb.rsi.off, nd.rdb.data>>} ELSE {})
         : n \in Node}
HistoryUnique ==
  \A x, y \in Claims : x[1] = y[1] /\ x[2] <= y[2] =>
    /\ IsPrefix(x[3], y[3])
    /\ x[2] = y[2] => x[3] = y[3]

\* Every slave a WAIT counted has executed the write the client waited for,
\* also when the answer came from the count made for another client.  The write
\* must have entered the stream: before the first backlog the offset is 0.
WaitSound ==
  \A k \in DOMAIN waiter.cl : LET cl == waiter.cl[k] IN
    cl.st = "done" /\ cl.woff > 0 => \A l \in cl.links : l[2] \in had[cl.val]

\* Once the operator and the network leave the system alone, every slave ends
\* up connected and with its master's dataset, unless the operator made slaves
\* of each other: the slaves that hang, directly or not, from a master.
Rooted == {n \in Node : LET up(k) == IF node[k].host = Nil THEN k ELSE node[k].host
                        IN node[up(up(n))].host = Nil}
Synced == \A n \in Rooted : node[n].host # Nil =>
  node[n].rs = "connected" /\ node[n].data = node[node[n].host].data
EventuallySynced == <>[]Synced
============================================================================

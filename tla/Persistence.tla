---------------------------- MODULE Persistence ----------------------------
(* Persistence of a Redis server: the append only file with its write and    *)
(* fsync policies, its background rewrite with the pipes between parent and  *)
(* child (aof.c), RDB snapshots (rdb.c), the background I/O thread (bio.c),  *)
(* the parts of serverCron, beforeSleep and prepareForShutdown that drive    *)
(* them, and what a restart finds after a shutdown, a crash of the process   *)
(* or a power failure.                                                       *)
(*                                                                           *)
(* A write is a number; the dataset is the sequence of the writes executed,  *)
(* with their databases.  Files hold one unit for each command, or one for a *)
(* whole snapshot, and know how many of their units have reached the disk.   *)
EXTENDS Integers, Sequences, FiniteSets, SequencesExt, FiniteSetsExt

CONSTANTS None, Retries, RetryDelay, PScenarios

VARIABLES db,     \* the dataset
          aof,    \* server.aof_*; ghost cut: the loader cut the preamble away too
          file,   \* the AOF: its units, how many are on disk, since when not all
          rw,     \* the AOF rewrite: child, pipes, parent's buffer
          bio,    \* pending fsync jobs of the background thread
          rdb,    \* server.rdb_*, dirty, and the RDB file
          now,    \* server.unixtime
          loop,   \* where the event loop stands
          replied,\* ghost: the writes answered and not lost so far, and those due
          pbud, pscen

pvars == <<db, aof, file, rw, bio, rdb, now, loop, replied, pbud, pscen>>

State == [db |-> db, aof |-> aof, file |-> file, rw |-> rw, bio |-> bio, rdb |-> rdb]

PSpend(what) == pbud[what] > 0 /\ pbud' = [pbud EXCEPT ![what] = @ - 1]

----------------------------------------------------------------------------
(* Commands in the append only file *)

Cmd(t, v) == [t |-> t, v |-> v]

\* aofRewriteBufferAppend.
RewriteBufferAppend(r, units) == [r EXCEPT !.buf = @ \o units]

\* propagate and feedAppendOnlyFile: SELECT when the database changed, then the
\* command; to the AOF buffer, and to the rewrite buffer while a child is at work.
FeedAppendOnlyFile(s, d, cmds) ==
  LET units == IF s.aof.sel = d THEN cmds ELSE <<Cmd("select", d)>> \o cmds
  IN IF s.aof.state = "off" THEN s
     ELSE [s EXCEPT !.aof.sel = d,
                    !.aof.buf = IF s.aof.state = "on" THEN @ \o units ELSE @,
                    !.rw = IF s.rw.child = None THEN @ ELSE RewriteBufferAppend(@, units)]

\* loadAppendOnlyFile, the replay of one command by the fake client.  The
\* loader calls cmd->proc itself, so that what comes between MULTI and EXEC is
\* executed at once and EXEC finds nothing queued.
LoadCommand(c, u) ==
  CASE u.t = "snapshot" -> [c EXCEPT !.db = u.v]
    [] u.t = "select" -> [c EXCEPT !.sel = u.v]
    [] u.t = "write" -> [c EXCEPT !.db = Append(@, <<c.sel, u.v>>)]
    [] u.t = "multi" -> [c EXCEPT !.multi = TRUE]
    [] u.t = "exec" -> [c EXCEPT !.multi = FALSE]
Load(units) == FoldLeft(LoadCommand, [db |-> <<>>, sel |-> 0, multi |-> FALSE], units)
Replayed(units) == Load(units).db

----------------------------------------------------------------------------
(* Writing the append only file *)

\* aof_fsync.
Fsync(s) == [s EXCEPT !.file.synced = Len(s.file.data), !.file.since = None]

\* The write at the end of flushAppendOnlyFile went through: fsync by policy.
\* The everysec fsync is asked of the background thread once the second has
\* changed, unless one is in progress.
AfterWrite(s, t) ==
  LET w == [s EXCEPT !.file.data = @ \o s.aof.buf, !.aof.buf = <<>>, !.aof.err = FALSE,
                     !.aof.postponed = 0,
                     !.file.since = IF @ = None THEN t ELSE @]
      busy == s.bio # <<>>
  IN IF pscen.nofsync /\ (s.rw.child # None \/ s.rdb.child # None) THEN w
     ELSE IF pscen.policy = "always" THEN Fsync(w)
     ELSE IF pscen.policy = "everysec" /\ t > s.aof.lastsync
     THEN [w EXCEPT !.bio = IF busy THEN @ ELSE Append(@, "aof"), !.aof.lastsync = t]
     ELSE w

\* A write that failed, or was cut after k units.  What cannot be removed again
\* stays in the file and leaves the buffer.
AfterShortWrite(s, t, k) ==
  [s EXCEPT !.file.since = IF k = 0 \/ @ # None THEN @ ELSE t,
            !.file.data = @ \o SubSeq(s.aof.buf, 1, k),
            !.aof.buf = SubSeq(@, k + 1, Len(@)),
            !.aof.err = TRUE, !.aof.postponed = 0]

\* flushAppendOnlyFile.  While an everysec fsync is in progress the write is put
\* off, for two seconds at most.  how is what write() does: None for all of it,
\* or the number of units that stay in the file.
FlushAppendOnlyFile(s, t, force, how) ==
  LET busy == pscen.policy = "everysec" /\ ~force /\ s.bio # <<>>
  IN IF s.aof.buf = <<>> THEN s
     ELSE IF busy /\ s.aof.postponed = 0 THEN [s EXCEPT !.aof.postponed = t]
     ELSE IF busy /\ t - s.aof.postponed < 2 THEN s
     ELSE IF how = None THEN AfterWrite(s, t) ELSE AfterShortWrite(s, t, how)

----------------------------------------------------------------------------
(* The rewrite *)

NoChild == [child |-> None, buf |-> <<>>, pipe |-> <<>>, stop |-> FALSE, ask |-> FALSE,
            ack |-> FALSE]

\* rewriteAppendOnlyFileBackground: fork.  The commands from now on must start
\* with a SELECT, as they will follow the child's snapshot.
RewriteBackground(s) ==
  IF s.rw.child # None \/ s.rdb.child # None THEN s
  ELSE [s EXCEPT !.rw = [NoChild EXCEPT !.child = [ph |-> "save", snap |-> s.db, diff |-> <<>>]],
                 !.aof.sel = -1, !.aof.sched = FALSE]

\* What the child has in its file and its memory.
ChildHas(r) == <<Cmd("snapshot", r.child.snap)>> \o r.child.diff

\* Jobs of the background thread whose file has been replaced or closed.
Orphans(jobs) == [i \in DOMAIN jobs |-> "closed"]

\* Mutant: the rest of the parent's buffer is thrown away.
RewriteDone_NoDiff(s, t, ok) ==
  LET new == [data |-> ChildHas(s.rw), synced |-> Len(ChildHas(s.rw)),
              since |-> IF s.rw.buf = <<>> THEN None ELSE t]
      renamed == [s EXCEPT !.file = new, !.rw = NoChild, !.bio = Orphans(@), !.aof.cut = FALSE]
      synced == IF pscen.policy = "always" THEN Fsync(renamed)
                ELSE IF pscen.policy = "everysec"
                THEN [renamed EXCEPT !.bio = Append(@, "aof")] ELSE renamed
      failed == [s EXCEPT !.rw = NoChild, !.aof.sched = @ \/ s.aof.state = "wait"]
  IN IF ~ok THEN failed
     ELSE IF s.aof.state = "off" THEN renamed
     ELSE [synced EXCEPT !.aof.sel = -1, !.aof.buf = <<>>, !.aof.state = "on",
                         !.aof.base = Len(new.data)]

\* backgroundRewriteDoneHandler: what the parent has not sent is appended to
\* the new file, which replaces the old one; what waits in the AOF buffer is
\* part of it already.  The new file is fsynced by policy.  A failed first
\* rewrite is scheduled again.
RewriteDone(s, t, ok) ==
  LET new == [data |-> ChildHas(s.rw) \o s.rw.buf, synced |-> Len(ChildHas(s.rw)),
              since |-> IF s.rw.buf = <<>> THEN None ELSE t]
      renamed == [s EXCEPT !.file = new, !.rw = NoChild, !.bio = Orphans(@), !.aof.cut = FALSE]
      synced == IF pscen.policy = "always" THEN Fsync(renamed)
                ELSE IF pscen.policy = "everysec"
                THEN [renamed EXCEPT !.bio = Append(@, "aof")] ELSE renamed
      failed == [s EXCEPT !.rw = NoChild, !.aof.sched = @ \/ s.aof.state = "wait"]
  IN IF ~ok THEN failed
     ELSE IF s.aof.state = "off" THEN renamed
     ELSE [synced EXCEPT !.aof.sel = -1, !.aof.buf = <<>>, !.aof.state = "on",
                         !.aof.base = Len(new.data)]

\* startAppendOnly: an AOF that is switched on begins with a rewrite, at once
\* or as soon as the RDB child is gone; refused while a rewrite is running.
StartAppendOnly(s, t) ==
  LET open == [s EXCEPT !.aof.lastsync = t] IN
  IF s.rdb.child # None THEN [open EXCEPT !.aof.sched = TRUE, !.aof.state = "wait"]
  ELSE IF s.rw.child # None THEN open
  ELSE [RewriteBackground(open) EXCEPT !.aof.state = "wait"]

\* stopAppendOnly: flush, fsync, and kill the child.
StopAppendOnly(s, t) ==
  [Fsync(FlushAppendOnlyFile(s, t, TRUE, None)) EXCEPT
     !.aof.sel = -1, !.aof.state = "off", !.rw = NoChild, !.bio = Orphans(@)]

\* restartAOF after a full synchronization: Retries attempts, of which the
\* first fail cannot open the file.  The counter is compared after it has been
\* decremented once more than there were attempts.  The value is the server
\* and whether it exits.
RestartAOF(s, t, fails) ==
  LET attempts == IF fails < Retries THEN fails + 1 ELSE Retries
      retry == IF fails < Retries THEN Retries - attempts ELSE -1
  IN [s |-> IF fails < Retries THEN StartAppendOnly(s, t) ELSE s, exit |-> retry = 0]

----------------------------------------------------------------------------
(* RDB snapshots *)

\* rdbSaveBackground: fork, remembering how many changes the snapshot holds.
SaveBackground(s, t) ==
  IF s.rw.child # None \/ s.rdb.child # None THEN s
  ELSE [s EXCEPT !.rdb.child = [st |-> "run", snap |-> s.db], !.rdb.before = s.rdb.dirty,
                 !.rdb.try = t]

\* rdbSave in the foreground.
SaveNow(s, t) ==
  [s EXCEPT !.rdb.file = s.db, !.rdb.dirty = 0, !.rdb.ok = TRUE, !.rdb.last = t]

\* backgroundSaveDoneHandlerDisk.
SaveDone(s, t) ==
  IF s.rdb.child.st = "ok"
  THEN [s EXCEPT !.rdb.dirty = @ - s.rdb.before, !.rdb.ok = TRUE, !.rdb.last = t,
                 !.rdb.child = None]
  ELSE [s EXCEPT !.rdb.ok = @ /\ s.rdb.child.st = "killed", !.rdb.child = None]

----------------------------------------------------------------------------
(* The event loop: commands *)

Become(s) ==
  /\ db' = s.db /\ aof' = s.aof /\ file' = s.file /\ rw' = s.rw /\ bio' = s.bio /\ rdb' = s.rdb

\* processCommand refuses writes while the disk fails.
WritesAccepted == ~aof.err /\ (rdb.ok \/ ~pscen.stoponerr)

\* A write command, or a transaction of two: executed, counted as dirty and
\* propagated.  Its reply waits for beforeSleep.
Write(d, transaction) ==
  LET n == IF transaction THEN 2 ELSE 1
      ws == [i \in 1..n |-> Cmd("write", 10 * pbud.write + i)]
      done == [State EXCEPT !.db = @ \o [i \in 1..n |-> <<d, ws[i].v>>],
                            !.rdb.dirty = @ + n]
  IN /\ loop # "down" /\ WritesAccepted /\ PSpend("write")
     /\ Become(FeedAppendOnlyFile(done, d,
          IF transaction THEN <<Cmd("multi", 0)>> \o ws \o <<Cmd("exec", 0)>> ELSE ws))
     /\ replied' = [replied EXCEPT !.due = @ \cup {<<d, ws[i].v>> : i \in 1..n}]
     /\ UNCHANGED <<now, loop, pscen>>

\* beforeSleep: the AOF is written, then the replies are sent.  A server that
\* fsyncs always does not survive a failed write.
BeforeSleep(how) ==
  LET s == FlushAppendOnlyFile(State, now, FALSE, how)
      dies == how # None /\ pscen.policy = "always" /\ s # State
  IN /\ loop # "down"
     /\ IF how = None THEN UNCHANGED pbud
        ELSE how < Len(aof.buf) /\ PSpend("fail")
     /\ Become(s)
     /\ loop' = IF dies THEN "down" ELSE "events"
     /\ replied' = IF dies THEN replied ELSE [sent |-> replied.sent \cup replied.due, due |-> {}]
     /\ UNCHANGED <<now, pscen>>

\* BGREWRITEAOF.
BgrewriteaofCommand ==
  /\ loop # "down" /\ rw.child = None /\ PSpend("rewrite")
  /\ Become(IF rdb.child # None THEN [State EXCEPT !.aof.sched = TRUE]
            ELSE RewriteBackground(State))
  /\ UNCHANGED <<now, loop, replied, pscen>>

\* BGSAVE, BGSAVE SCHEDULE and SAVE.
BgsaveCommand(schedule) ==
  /\ loop # "down" /\ rdb.child = None /\ PSpend("save")
  /\ Become(IF rw.child = None THEN SaveBackground(State, now)
            ELSE [State EXCEPT !.rdb.sched = @ \/ schedule])
  /\ UNCHANGED <<now, loop, replied, pscen>>
SaveCommand ==
  /\ loop # "down" /\ rdb.child = None /\ PSpend("save")
  /\ Become(SaveNow(State, now))
  /\ UNCHANGED <<now, loop, replied, pscen>>

\* CONFIG SET appendonly yes and no.
ConfigAppendOnly ==
  /\ loop # "down" /\ PSpend("config")
  /\ Become(IF aof.state = "off" THEN StartAppendOnly(State, now)
            ELSE StopAppendOnly(State, now))
  /\ UNCHANGED <<now, loop, replied, pscen>>

\* readSyncBulkPayload at the end of a full synchronization: the payload becomes
\* the RDB file and the dataset, with the AOF off meanwhile.
LoadMasterPayload(fails) ==
  LET payload == <<<<0, -pbud.resync>>>>
      off == IF aof.state = "off" THEN State ELSE StopAppendOnly(State, now)
      new == [off EXCEPT !.db = payload, !.rdb.file = payload]
      on == RestartAOF(new, now, fails)
  IN /\ loop # "down" /\ PSpend("resync")
     /\ fails > 0 => aof.state # "off"
     /\ Become(IF aof.state = "off" THEN new ELSE on.s)
     /\ loop' = IF aof.state # "off" /\ on.exit THEN "down" ELSE loop
     /\ replied' = [sent |-> {}, due |-> {}]
     /\ UNCHANGED <<now, pscen>>

----------------------------------------------------------------------------
(* The event loop: serverCron *)

\* A child that has ended, reaped by wait3.
ReapChild(s, t) ==
  IF s.rdb.child # None
  THEN IF s.rdb.child.st = "run" THEN s ELSE SaveDone(s, t)
  ELSE IF s.rw.child.ph = "exit" THEN RewriteDone(s, t, TRUE)
  ELSE IF s.rw.child.ph = "dead" THEN RewriteDone(s, t, FALSE)
  ELSE s

\* The pause after a snapshot that failed.
MayRetry(s, t) == s.rdb.ok \/ t - s.rdb.try > RetryDelay

\* Without children: a snapshot when a save point is reached, else a rewrite
\* when the AOF has doubled.
StartChild(s, t) ==
  LET saved == IF pscen.savepoint > 0 /\ s.rdb.dirty >= pscen.savepoint
                  /\ t > s.rdb.last /\ MayRetry(s, t)
               THEN SaveBackground(s, t) ELSE s
      grown == s.aof.state # "off" /\ Len(s.file.data) > pscen.minsize
               /\ Len(s.file.data) >= 2 * (IF s.aof.base = 0 THEN 1 ELSE s.aof.base)
  IN IF saved.rdb.child = None /\ grown THEN RewriteBackground(saved) ELSE saved

\* serverCron, tick seconds later: a scheduled rewrite, then children, then the
\* writes that were put off or failed, then a scheduled snapshot.
ServerCron(tick) ==
  LET t == now + tick
      idle(s) == s.rw.child = None /\ s.rdb.child = None
      s1 == IF idle(State) /\ aof.sched THEN RewriteBackground(State) ELSE State
      s2 == IF idle(s1) THEN StartChild(s1, t) ELSE ReapChild(s1, t)
      s3 == IF s2.aof.postponed # 0 \/ s2.aof.err
            THEN FlushAppendOnlyFile(s2, t, FALSE, None) ELSE s2
      s4 == IF idle(s3) /\ s3.rdb.sched /\ MayRetry(s3, t)
            THEN [SaveBackground(s3, t) EXCEPT !.rdb.sched = FALSE] ELSE s3
  IN /\ loop = "events"
     /\ IF tick = 1 THEN PSpend("tick") ELSE UNCHANGED pbud
     /\ tick = 1 => (pscen.prompt => bio = <<>>)
     /\ Become(s4)
     /\ now' = t /\ loop' = "ran"
     /\ UNCHANGED <<replied, pscen>>

----------------------------------------------------------------------------
(* Children, pipes and the background thread *)

\* bioProcessBackgroundJobs: fsync, then the job is done.
BioFsync ==
  /\ bio # <<>>
  /\ LET s == [State EXCEPT !.bio = Tail(@)]
     IN Become(IF Head(bio) = "aof" THEN Fsync(s) ELSE s)
  /\ UNCHANGED <<now, loop, replied, pbud, pscen>>

\* aofChildWriteDiffData: what the pipe takes of the buffer, until the child
\* has asked for no more.
ChildWriteDiffData(k) ==
  /\ loop # "down" /\ rw.child # None /\ ~rw.stop /\ k \in 1..Len(rw.buf)
  /\ rw' = [rw EXCEPT !.pipe = @ \o SubSeq(rw.buf, 1, k),
                      !.buf = SubSeq(@, k + 1, Len(@))]
  /\ UNCHANGED <<db, aof, file, bio, rdb, now, loop, replied, pbud, pscen>>

\* aofChildPipeReadable: the child asked; stop sending and say so.
ChildPipeReadable ==
  /\ loop # "down" /\ rw.ask
  /\ rw' = [rw EXCEPT !.ask = FALSE, !.stop = TRUE, !.ack = TRUE]
  /\ UNCHANGED <<db, aof, file, bio, rdb, now, loop, replied, pbud, pscen>>

\* rewriteAppendOnlyFile in the child: write the snapshot, read differences,
\* ask the parent to stop, wait for its answer, read what is left in the pipe,
\* write all the differences, fsync and exit.  Any of it can fail.
ReadDiff(r) == [r EXCEPT !.child.diff = @ \o r.pipe, !.pipe = <<>>]

RewriteChild ==
  /\ rw.child # None
  /\ LET ph == rw.child.ph
         to(p) == [rw EXCEPT !.child.ph = p]
     IN \/ ph = "save" /\ rw' = [ReadDiff(rw) EXCEPT !.child.ph = "ask"] /\ UNCHANGED pbud
        \/ ph = "ask" /\ rw' = [to("wait") EXCEPT !.ask = TRUE] /\ UNCHANGED pbud
        \/ ph = "wait" /\ rw.ack /\ rw' = [ReadDiff(rw) EXCEPT !.child.ph = "exit"]
           /\ UNCHANGED pbud
        \/ ph \in {"save", "ask", "wait"} /\ PSpend("childfail") /\ rw' = to("dead")
  /\ UNCHANGED <<db, aof, file, bio, rdb, now, loop, replied, pscen>>

\* rdbSave in the child: the last thing it does is to rename its file.
RdbChild ==
  /\ rdb.child # None /\ rdb.child.st = "run"
  /\ \/ rdb' = [rdb EXCEPT !.file = rdb.child.snap, !.child.st = "ok"] /\ UNCHANGED pbud
     \/ rdb' = [rdb EXCEPT !.child.st = "fail"] /\ PSpend("childfail")
  /\ UNCHANGED <<db, aof, file, rw, bio, now, loop, replied, pscen>>

----------------------------------------------------------------------------
(* Shutdown, crashes, restart *)

\* prepareForShutdown, and exit if it succeeds; ok is the outcome of rdbSave.
Shutdown(nosave, ok) ==
  LET s1 == IF rdb.child # None /\ rdb.child.st = "run"
            THEN [State EXCEPT !.rdb.child.st = "killed"] ELSE State
      first == aof.state = "wait" /\ rw.child # None
      s2 == IF s1.rw.child # None /\ s1.rw.child.ph # "exit"
            THEN [s1 EXCEPT !.rw.child.ph = "dead"] ELSE s1
      s3 == IF aof.state = "off" THEN s1
            ELSE Fsync(FlushAppendOnlyFile(s2, now, TRUE, None))
      save == pscen.savepoint > 0 /\ ~nosave
  IN /\ loop # "down" /\ PSpend("shutdown")
     /\ ~ok => save /\ ~first
     /\ Become(IF first THEN s1 ELSE IF save /\ ok THEN SaveNow(s3, now) ELSE s3)
     /\ loop' = IF first \/ ~ok THEN loop ELSE "down"
     /\ UNCHANGED <<now, replied, pscen>>

\* The process is killed: what was written to the files stays.
Kill ==
  /\ loop # "down" /\ PSpend("crash")
  /\ loop' = "down"
  /\ UNCHANGED <<db, aof, file, rw, bio, rdb, now, replied, pscen>>

\* The machine stops: of what was not fsynced some units remain, and the next
\* one perhaps in part.  A server that fsyncs always may be between the write and
\* the fsync of flushAppendOnlyFile.
PowerFailure(kept, torn) ==
  LET written == IF pscen.policy = "always" THEN file.data \o aof.buf ELSE file.data
  IN /\ loop # "down" /\ PSpend("power")
     /\ kept \in file.synced..Len(written)
     /\ torn => pscen.torn /\ kept < Len(written)
     /\ file' = [data |-> SubSeq(written, 1, kept)
                            \o (IF torn THEN <<Cmd("torn", 0)>> ELSE <<>>),
                  synced |-> kept, since |-> None]
     /\ loop' = "down"
     /\ UNCHANGED <<db, aof, rw, bio, rdb, now, replied, pscen>>

\* loadAppendOnlyFile with aof-load-truncated: a file that ends in the middle of
\* a command or of a transaction is cut behind the last command it loaded (the
\* part of the transaction that is there stays), which is its very beginning
\* when the RDB preamble is all it loaded.
LoadAppendOnlyFile(units) ==
  LET whole == SelectSeq(units, LAMBDA u : u.t # "torn")
      c == Load(whole)
      bad == whole # units \/ c.multi
      onlyPreamble == \A i \in DOMAIN whole : whole[i].t = "snapshot"
      valid == IF pscen.preamble /\ onlyPreamble THEN <<>> ELSE whole
  IN [db |-> c.db, data |-> IF bad THEN valid ELSE whole]

\* Mutant: the RDB file is loaded first, and the AOF replayed over it.
LoadedData_Both == rdb.file \o LoadAppendOnlyFile(file.data).db

\* loadDataFromDisk at the start of the server: from the AOF if it is on, else
\* from the RDB file.
LoadedData == IF pscen.aof THEN LoadAppendOnlyFile(file.data).db ELSE rdb.file
RestartProcess ==
  LET a == LoadAppendOnlyFile(file.data)
      loaded == LoadedData
  IN /\ loop = "down" /\ loop' = "events"
     /\ db' = loaded /\ replied' = [sent |-> replied.sent \cap ToSet(loaded), due |-> {}]
     /\ file' = IF ~pscen.aof THEN file
                ELSE [file EXCEPT !.data = a.data,
                                  !.synced = IF @ > Len(a.data) THEN Len(a.data) ELSE @]
     /\ aof' = [state |-> IF pscen.aof THEN "on" ELSE "off", buf |-> <<>>, sel |-> -1,
                err |-> FALSE, postponed |-> 0, lastsync |-> now, sched |-> FALSE,
                base |-> Len(file'.data),
                cut |-> aof.cut \/ (pscen.aof /\ a.data = <<>> /\ a.db # <<>>)]
     /\ rw' = NoChild /\ bio' = <<>>
     /\ rdb' = [file |-> rdb.file, child |-> None, dirty |-> IF pscen.aof THEN Len(loaded) ELSE 0,
                before |-> 0, ok |-> TRUE, sched |-> FALSE, last |-> now, try |-> 0]
     /\ UNCHANGED <<now, pbud, pscen>>

PInit ==
  /\ pscen \in PScenarios /\ pbud = pscen.bud
  /\ db = <<>> /\ replied = [sent |-> {}, due |-> {}] /\ now = 1 /\ loop = "events"
  /\ file = [data |-> <<>>, synced |-> 0, since |-> None]
  /\ aof = [state |-> IF pscen.aof THEN "on" ELSE "off", buf |-> <<>>, sel |-> -1,
            err |-> FALSE, postponed |-> 0, lastsync |-> now, sched |-> FALSE, base |-> 0,
            cut |-> FALSE]
  /\ rw = NoChild /\ bio = <<>>
  /\ rdb = [file |-> <<>>, child |-> None, dirty |-> 0, before |-> 0, ok |-> TRUE,
            sched |-> FALSE, last |-> now, try |-> 0]

PNext ==
  \/ \E d \in pscen.dbs, m \in pscen.multis : Write(d, m)
  \/ \E how \in {None} \cup 0..2 : BeforeSleep(how)
  \/ BgrewriteaofCommand
  \/ \E s \in BOOLEAN : BgsaveCommand(s)
  \/ SaveCommand
  \/ ConfigAppendOnly
  \/ \E f \in pscen.fails : LoadMasterPayload(f)
  \/ \E tick \in 0..1 : ServerCron(tick)
  \/ BioFsync
  \/ \E k \in 1..2 : ChildWriteDiffData(k)
  \/ ChildPipeReadable
  \/ RewriteChild
  \/ RdbChild
  \/ \E n, ok \in BOOLEAN : Shutdown(n, ok)
  \/ Kill
  \/ \E kept \in 0..Len(file.data \o aof.buf), torn \in BOOLEAN : PowerFailure(kept, torn)
  \/ RestartProcess

PSpec == PInit /\ [][PNext]_pvars

----------------------------------------------------------------------------
(* Properties *)

Up == loop # "down"

\* What is in the append only file and in the buffer before it is the dataset:
\* every flush, short write, rewrite and switch keeps
\* the two together (feedAppendOnlyFile, flushAppendOnlyFile,
\* backgroundRewriteDoneHandler, loadAppendOnlyFile).  Left out is the server
\* whose AOF ended in the middle of the first command behind the RDB preamble:
\* valid_up_to is still 0 there, the file is truncated to nothing while the
\* preamble's data is served, and stays so until a rewrite replaces it.
AofReplays ==
  Up /\ aof.state = "on" /\ ~aof.cut => Replayed(file.data \o aof.buf) = db

\* A rewrite in progress is not missing a write: what the child saved and read,
\* what is in the pipe and what the parent still has to send replay to the
\* dataset (aofRewriteBufferAppend, aofChildWriteDiffData, aofReadDiffFromParent
\* and the handshake that ends the sending).
RewriteReplays ==
  Up /\ rw.child # None /\ rw.child.ph # "dead" /\ aof.state # "off" =>
    /\ Replayed(ChildHas(rw) \o rw.pipe \o rw.buf) = db
    /\ rw.child.ph = "exit" => rw.pipe = <<>>

\* With appendfsync always (and fsync during rewrites) no answered write is lost,
\* whatever the crash: the reply is sent behind the fsync, and the file of a
\* rewrite is complete and on disk when it takes over.  A file cut to nothing by
\* the loader is left out, as in AofReplays.
DurableReplies ==
  Up /\ aof.state = "on" /\ pscen.policy = "always" /\ ~pscen.nofsync /\ ~aof.cut =>
    replied.sent \subseteq ToSet(Replayed(SubSeq(file.data, 1, file.synced)))

\* server.dirty counts exactly the changes the RDB file does not hold, through
\* snapshots in the foreground and in the background, failed and killed ones.
DirtyExact ==
  ~pscen.aof /\ Up =>
    LET saved == rdb.child # None /\ rdb.child.st = "ok"
        unsaved == IF saved THEN rdb.dirty - rdb.before ELSE rdb.dirty
    IN rdb.file = SubSeq(db, 1, Len(db) - unsaved)

\* The answered writes that the next start owes to the clients.  With appendfsync
\* always (and fsync during rewrites) these are all of them.  With the other
\* policies a power failure may take what was not fsynced, but the death of the
\* process alone takes only what is in the AOF buffer, put off or left there by a
\* write that failed.
Promised ==
  LET buffered == {<<d, u.v>> : d \in pscen.dbs, u \in ToSet(aof.buf)}
      powered == pbud.power = pscen.bud.power
  IN IF pscen.policy = "always" /\ ~pscen.nofsync THEN replied.sent
     ELSE IF powered THEN replied.sent \ buffered ELSE {}

\* A restart recovers a state the dataset had, never another one: a prefix of
\* the writes, with every promised one when it loads the AOF, and with all but
\* server.dirty of them when it loads the RDB file (loadAppendOnlyFile, rdbLoad).
\* A transaction may come back in part after a power failure, as the loader
\* executes what follows MULTI at once.  Left out are a server that loads another
\* kind of file than it was writing (one that still waits for the first rewrite
\* after a synchronization has only the AOF of its former dataset), and one whose
\* loader has cut the preamble away at an earlier start, as in AofReplays.
RecoversPrefix ==
  [][loop = "down" /\ loop' = "events" /\ (pscen.aof <=> aof.state = "on") /\ ~aof.cut
       => /\ IsPrefix(db', db)
          /\ IF pscen.aof THEN Promised \subseteq ToSet(db')
             ELSE Len(db) - Len(db') <= rdb.dirty]_pvars

\* An everysec write is put off for less than two seconds while an fsync is slow
\* (flushAppendOnlyFile), and never once the fsync is over.
PostponedBriefly ==
  loop = "events" /\ aof.buf # <<>> /\ aof.postponed # 0 => now - aof.postponed < 2

\* With appendfsync everysec what is written reaches the disk within two
\* seconds, if the disk does an fsync within one.
EverySecond ==
  Up /\ pscen.policy = "everysec" /\ file.since # None => now - file.since <= 2
=============================================================================

------------------------------- MODULE Clients -------------------------------
(* The client connections of the Redis server (networking.c, blocked.c and   *)
(* the client part of serverCron): how the bytes a client sends become       *)
(* commands whatever the sizes of the reads, how the replies are buffered    *)
(* and written, and how clients are blocked, paused, timed out and closed.   *)
(* The server's state cs has                                                 *)
(*   c          the clients, by name; a client not accepted or freed is NoClient  *)
(*   clients, pending, unblocked, toClose    server.clients,                 *)
(*              clients_pending_write, unblocked_clients, clients_to_close   *)
(*   paused, until   clients_paused, clients_pause_end_time                  *)
(*   now        server.mstime                                                *)
(*   cur        server.current_client                                        *)
(*   ran, why   history: the commands run for each client, and why it was    *)
(*              closed                                                       *)
(*   twice      history: the queued clients the end of a pause queued again  *)
(* and wire what is between the server and each peer: the bytes not read     *)
(* yet, those delivered, whether the peer closed.  A byte is a pair: a CR, a *)
(* LF, a letter, or a whole "*<n>" or "$<n>" (a header cut inside its number *)
(* waits for its CR just as one cut after it).  A command is a sequence of   *)
(* arguments, an argument a sequence of bytes.                               *)
EXTENDS Integers, FiniteSets, FiniteSetsExt, Sequences, SequencesExt

CONSTANTS
  NoClient,
  Peer,          \* the clients
  BufSize,       \* PROTO_REPLY_CHUNK_BYTES: of the static buffer and a node
  IoLen,         \* PROTO_IOBUF_LEN: bytes asked of one read
  BigArg,        \* PROTO_MBULK_BIG_ARG
  InlineMax,     \* PROTO_INLINE_MAX_SIZE
  CScenarios

VARIABLES cs, wire, cscen

cvars == <<cs, wire, cscen>>

CR == <<"CR", "">>
LF == <<"LF", "">>
Byte(v) == <<"b", v>>
Ok == <<"+", 0>>
Fail == <<"-", 0>>

(* createClient: a connected client with nothing read and nothing to send.   *)
CreateClient(now) ==
  [qb |-> <<>>, req |-> "none", mbl |-> 0, bl |-> -1, argv |-> <<>>,
   buf |-> <<>>, reply |-> <<>>, sent |-> 0, handler |-> FALSE, flags |-> {},
   deadline |-> 0, soft |-> 0, seen |-> now]

Has(s, p, f) == f \in s.c[p].flags
Flag(s, p, f) == [s EXCEPT !.c[p].flags = @ \cup {f}]
Unflag(s, p, f) == [s EXCEPT !.c[p].flags = @ \ {f}]
FirstOff(seq, p) == IF Contains(seq, p) THEN RemoveFirst(seq, p) ELSE seq

-----------------------------------------------------------------------------
(* Replies                                                                   *)

ClientHasPendingReplies(r) == r.buf # <<>> \/ r.reply # <<>>

FreeClientAsync(s, p) ==
  IF Has(s, p, "asap") THEN s
  ELSE [Flag(s, p, "asap") EXCEPT !.toClose = Append(@, p),
                                  !.why[p] = @ \cup {"limit"}]

RECURSIVE TotalLen(_)
TotalLen(chunks) ==
  IF chunks = <<>> THEN 0 ELSE Len(Head(chunks)) + TotalLen(Tail(chunks))

(* getClientOutputBufferMemoryUsage, a list node costing one byte.           *)
OutputMemory(r) == TotalLen(r.reply) + Len(r.reply)

(* checkClientOutputBufferLimits: over the hard limit, or over the soft one  *)
(* for longer than its time; the time the soft limit was reached is kept.    *)
CheckClientOutputBufferLimits(s, p) ==
  LET r == s.c[p]
      over == cscen.soft > 0 /\ OutputMemory(r) >= cscen.soft
      since == IF ~over THEN 0 ELSE IF r.soft = 0 THEN s.now ELSE r.soft
  IN  [state |-> [s EXCEPT !.c[p].soft = since],
       limit |-> \/ cscen.hard > 0 /\ OutputMemory(r) >= cscen.hard
                 \/ over /\ r.soft # 0 /\ s.now - r.soft > cscen.softTime]

AsyncCloseClientOnOutputBufferLimitReached(s, p) ==
  LET check == CheckClientOutputBufferLimits(s, p)
  IN  IF TotalLen(s.c[p].reply) = 0 \/ Has(s, p, "asap") THEN s
      ELSE IF check.limit THEN FreeClientAsync(check.state, p)
      ELSE check.state

(* _addReplyToBuffer succeeds.                                               *)
FitsBuffer(r, o) == r.reply = <<>> /\ Len(r.buf) + Len(o) <= BufSize

AddReplyToList(s, p, o) ==
  LET list == s.c[p].reply
      joins == list # <<>> /\ Len(Last(list)) + Len(o) <= BufSize
  IN  AsyncCloseClientOnOutputBufferLimitReached(
        [s EXCEPT !.c[p].reply = IF joins THEN Front(@) \o <<Last(@) \o o>>
                                 ELSE Append(@, o)], p)

PrepareClientToWrite(s, p) ==
  IF ClientHasPendingReplies(s.c[p]) \/ Has(s, p, "pending") THEN s
  ELSE [Flag(s, p, "pending") EXCEPT !.pending = <<p>> \o @]

(* Mutant: the buffer is used whenever there is room in it.                  *)
AddReply_BufferFirst(s, p, o) ==
  IF s.c[p].flags \cap {"off", "skip"} # {} THEN s
  ELSE LET t == PrepareClientToWrite(s, p)
       IN  IF Has(t, p, "after") THEN t
           ELSE IF Len(t.c[p].buf) + Len(o) <= BufSize
                THEN [t EXCEPT !.c[p].buf = @ \o o]
           ELSE AddReplyToList(t, p, o)

(* addReply: the client is put among those with something to write, and the  *)
(* object goes to the static buffer while the list is empty and it fits, to  *)
(* the list otherwise; nothing is added for a client about to be closed.     *)
AddReply(s, p, o) ==
  IF s.c[p].flags \cap {"off", "skip"} # {} THEN s
  ELSE LET t == PrepareClientToWrite(s, p)
       IN  IF Has(t, p, "after") THEN t
           ELSE IF FitsBuffer(t.c[p], o) THEN [t EXCEPT !.c[p].buf = @ \o o]
           ELSE AddReplyToList(t, p, o)

-----------------------------------------------------------------------------
(* Blocking and closing                                                      *)

BlockClient(s, p, deadline) ==
  [Flag(s, p, "blocked") EXCEPT !.c[p].deadline = deadline]

UnblockClient(s, p) ==
  LET t == Unflag(s, p, "blocked")
  IN  IF Has(t, p, "unblocked") THEN t
      ELSE [Flag(t, p, "unblocked") EXCEPT !.unblocked = Append(@, p)]

(* unlinkClient takes the client off the lists its flags say it is on.       *)
UnlinkClient(s, p) ==
  [s EXCEPT !.cur = IF @ = p THEN NoClient ELSE @,
            !.clients = RemoveFirst(@, p),
            !.pending = IF Has(s, p, "pending") THEN FirstOff(@, p) ELSE @,
            !.unblocked = IF Has(s, p, "unblocked") THEN FirstOff(@, p) ELSE @]

FreeClient(s, p, reason) ==
  LET unblocked == IF Has(s, p, "blocked") THEN UnblockClient(s, p) ELSE s
      unlinked == UnlinkClient(unblocked, p)
  IN  [unlinked EXCEPT !.c[p] = NoClient, !.why[p] = @ \cup {reason},
         !.toClose = IF Has(s, p, "asap") THEN FirstOff(@, p) ELSE @]

RECURSIVE FreeClientsInAsyncFreeQueue(_)
FreeClientsInAsyncFreeQueue(s) ==
  IF s.toClose = <<>> THEN s
  ELSE LET p == Head(s.toClose)
           freed == FreeClient(Unflag(s, p, "asap"), p, "limit")
       IN  FreeClientsInAsyncFreeQueue([freed EXCEPT !.toClose = Tail(@)])

(* disconnectAllBlockedClients, when the instance becomes a slave.           *)
RECURSIVE DisconnectBlocked(_, _)
DisconnectBlocked(s, ps) ==
  IF ps = <<>> THEN s
  ELSE LET p == Head(ps)
           told == UnblockClient(AddReply(s, p, <<Fail>>), p)
       IN  DisconnectBlocked(IF Has(s, p, "blocked")
                             THEN [Flag(told, p, "after")
                                     EXCEPT !.why[p] = @ \cup {"role"}]
                             ELSE s, Tail(ps))

-----------------------------------------------------------------------------
(* Pausing                                                                   *)

PauseClients(s, end) ==
  [s EXCEPT !.until = IF ~s.paused \/ end > @ THEN end ELSE @,
            !.paused = TRUE]

RECURSIVE UnpauseAll(_, _)
UnpauseAll(s, ps) ==
  IF ps = <<>> THEN s
  ELSE LET p == Head(ps)
           again == IF Has(s, p, "unblocked") THEN {p} ELSE {}
       IN  UnpauseAll(IF Has(s, p, "blocked") THEN s
                      ELSE [Flag(s, p, "unblocked")
                              EXCEPT !.unblocked = Append(@, p),
                                     !.twice = @ \cup again], Tail(ps))

(* Mutant: when the pause ends the clients are not queued again.             *)
ClientsArePaused_Forgets(s) ==
  IF s.paused /\ s.until < s.now THEN [s EXCEPT !.paused = FALSE] ELSE s

(* clientsArePaused also ends a pause that is over: every client that is not *)
(* blocked is queued to have its query buffer processed, also one that is    *)
(* queued already.  The answer is the "paused" of the state it returns.      *)
ClientsArePaused(s) ==
  IF s.paused /\ s.until < s.now
  THEN UnpauseAll([s EXCEPT !.paused = FALSE], s.clients)
  ELSE s

-----------------------------------------------------------------------------
(* Parsing                                                                   *)

(* The position of the first b of q after position pos, 0 if there is none.  *)
PosAfter(q, b, pos) ==
  LET at == {i \in (pos + 1)..Len(q) : q[i] = b}
  IN  IF at = {} THEN 0 ELSE CHOOSE i \in at : \A j \in at : i <= j

From(q, pos) == SubSeq(q, pos + 1, Len(q))

(* The error reply and setProtocolError.                                     *)
SetProtocolError(s, p, pos) ==
  [Flag(AddReply(s, p, <<Fail>>), p, "after")
     EXCEPT !.c[p].qb = From(@, pos), !.why[p] = @ \cup {"protocol"}]

Incomplete(s, p, pos) == [state |-> [s EXCEPT !.c[p].qb = From(@, pos)],
                          ok |-> FALSE]
Malformed(s, p, pos) == [state |-> SetProtocolError(s, p, pos), ok |-> FALSE]

(* processInlineBuffer, for lines of at most one word.                       *)
ProcessInlineBuffer(s, p) ==
  LET q == s.c[p].qb
      nl == PosAfter(q, LF, 0)
      querylen == IF nl > 1 /\ q[nl - 1] = CR THEN nl - 2 ELSE nl - 1
      line == SubSeq(q, 1, querylen)
  IN  IF nl = 0
      THEN IF Len(q) > InlineMax THEN Malformed(s, p, 0) ELSE Incomplete(s, p, 0)
      ELSE [state |-> [s EXCEPT !.c[p].qb = From(@, querylen + 2),
                                !.c[p].argv = IF line = <<>> THEN <<>>
                                              ELSE <<line>>],
            ok |-> TRUE]

(* The "$<n>" line of the next argument: n, or why it is not there.          *)
BulkHeader(q, pos) ==
  LET nl == PosAfter(q, CR, pos)
  IN  IF nl = 0 THEN IF Len(q) > InlineMax THEN "too big" ELSE "incomplete"
      ELSE IF nl > Len(q) - 1 THEN "incomplete"
      ELSE IF q[pos + 1][1] # "$" \/ nl # pos + 2 THEN "malformed"
      ELSE "complete"

ArgReady(r, pos) == Len(r.qb) - pos >= r.bl + 2

(* The loop of processMultibulkBuffer, at position pos of the query buffer.  *)
(* A big argument is moved to the start of the buffer, which becomes the     *)
(* argument itself when it holds nothing else.                               *)
RECURSIVE ParseArgs(_, _, _)
ParseArgs(s, p, pos) ==
  LET r == s.c[p]
      header == BulkHeader(r.qb, pos)
      n == r.qb[pos + 1][2]
      after == IF r.bl >= BigArg /\ pos = 0 /\ Len(r.qb) = r.bl + 2
               THEN [s EXCEPT !.c[p].qb = <<>>] ELSE s
      next == IF r.bl >= BigArg /\ pos = 0 /\ Len(r.qb) = r.bl + 2 THEN 0
              ELSE pos + r.bl + 2
  IN  IF r.mbl = 0
      THEN [state |-> [s EXCEPT !.c[p].qb = From(@, pos)], ok |-> TRUE]
      ELSE IF r.bl = -1
      THEN CASE header = "too big" -> Malformed(s, p, 0)
             [] header = "incomplete" -> Incomplete(s, p, pos)
             [] header = "malformed" -> Malformed(s, p, pos)
             [] header = "complete" ->
                  IF n >= BigArg
                  THEN ParseArgs([s EXCEPT !.c[p].qb = From(@, pos + 3),
                                           !.c[p].bl = n], p, 0)
                  ELSE ParseArgs([s EXCEPT !.c[p].bl = n], p, pos + 3)
      ELSE IF ~ArgReady(r, pos) THEN Incomplete(s, p, pos)
      ELSE ParseArgs([after EXCEPT
                        !.c[p].argv = Append(@, SubSeq(r.qb, pos + 1, pos + r.bl)),
                        !.c[p].bl = -1, !.c[p].mbl = @ - 1], p, next)

ProcessMultibulkBuffer(s, p) ==
  LET r == s.c[p]
      nl == PosAfter(r.qb, CR, 0)
  IN  IF r.mbl > 0 THEN ParseArgs(s, p, 0)
      ELSE IF nl = 0
      THEN IF Len(r.qb) > InlineMax THEN Malformed(s, p, 0)
           ELSE Incomplete(s, p, 0)
      ELSE IF nl > Len(r.qb) - 1 THEN Incomplete(s, p, 0)
      ELSE IF nl # 2 THEN Malformed(s, p, 0)
      ELSE IF r.qb[1][2] <= 0
      THEN [state |-> [s EXCEPT !.c[p].qb = From(@, 3)], ok |-> TRUE]
      ELSE ParseArgs([s EXCEPT !.c[p].mbl = r.qb[1][2]], p, 3)

ResetClient(s, p) ==
  [s EXCEPT !.c[p].argv = <<>>, !.c[p].req = "none", !.c[p].mbl = 0,
            !.c[p].bl = -1,
            !.c[p].flags = IF "skipnext" \in @
                           THEN (@ \ {"skipnext"}) \cup {"skip"}
                           ELSE @ \ {"skip"}]

-----------------------------------------------------------------------------
(* Commands.  The reply to the k-th command of a client is made of <<"r",k>>.*)

Reply(s, p) == <<"r", Len(s.ran[p])>>

RECURSIVE FreeAll(_, _)
FreeAll(s, ps) ==
  IF ps = <<>> THEN s ELSE FreeAll(FreeClient(s, Head(ps), "kill"), Tail(ps))

(* CLIENT REPLY, CLIENT KILL (of the other clients) and CLIENT PAUSE.        *)
ClientCommand(s, p, sub) ==
  CASE sub = "on" ->
         AddReply([s EXCEPT !.c[p].flags = @ \ {"skip", "off"}], p, <<Reply(s, p)>>)
    [] sub = "off" -> Flag(s, p, "off")
    [] sub = "skip" -> IF Has(s, p, "off") THEN s ELSE Flag(s, p, "skipnext")
    [] sub = "kill" ->
         AddReply(FreeAll(s, SelectSeq(s.clients, LAMBDA q : q # p)),
                  p, <<Reply(s, p)>>)
    [] sub = "pause" ->
         AddReply(PauseClients(s, s.now + cscen.pause), p, <<Reply(s, p)>>)

Blocked(s) == SelectSeq(s.clients, LAMBDA q : Has(s, q, "blocked"))

(* What a command does to the connections: QUIT, CLIENT, a command with a    *)
(* short or a long reply, a blocking one, one that serves a blocked client,  *)
(* and SLAVEOF, which disconnects them.                                      *)
ProcessCommand(s, p) ==
  LET name == s.c[p].argv[1][1][2]
      t == [s EXCEPT !.ran[p] = Append(@, s.c[p].argv)]
      r == <<Reply(t, p)>>
  IN  CASE name = "quit" ->
             [Flag(AddReply(t, p, r), p, "after") EXCEPT !.why[p] = @ \cup {"quit"}]
        [] name = "long" ->
             ResetClient(AddReply(AddReply(AddReply(t, p, r), p, r \o r), p, r), p)
        [] name = "block" ->
             ResetClient(BlockClient(t, p, IF cscen.block = 0 THEN 0
                                           ELSE t.now + cscen.block), p)
        [] name = "push" ->
             LET b == Blocked(t)
                 q == Head(b)
             IN  ResetClient(AddReply(
                   IF b = <<>> THEN t
                   ELSE UnblockClient(AddReply(t, q, <<Reply(t, q)>>), q), p, r), p)
        [] name = "slaveof" ->
             ResetClient(AddReply(DisconnectBlocked(t, t.clients), p, r), p)
        [] name \in {"on", "off", "skip", "kill", "pause"} ->
             ResetClient(ClientCommand(t, p, name), p)
        [] OTHER -> ResetClient(AddReply(t, p, r), p)

(* processInputBuffer: the commands in the query buffer, one after another,  *)
(* unless the clients are paused or this one is blocked or being closed.     *)
Typed(s, p) ==
  [s EXCEPT !.c[p].req = IF @ # "none" THEN @
                         ELSE IF s.c[p].qb[1][1] = "*" THEN "multibulk" ELSE "inline"]
Parse(s, p) ==
  IF s.c[p].req = "inline" THEN ProcessInlineBuffer(s, p) ELSE ProcessMultibulkBuffer(s, p)

RECURSIVE InputLoop(_, _)
InputLoop(s, p) ==
  LET Ran(t) == IF t.cur = NoClient THEN t ELSE InputLoop(t, p)
      Parsed(r) == IF ~r.ok THEN r.state
                   ELSE IF r.state.c[p].argv = <<>> THEN InputLoop(ResetClient(r.state, p), p)
                   ELSE Ran(ProcessCommand(r.state, p))
      Admitted(t) == IF t.paused \/ t.c[p].flags \cap {"blocked", "after", "asap"} # {} THEN t
                     ELSE Parsed(Parse(Typed(t, p), p))
  IN  IF s.c[p].qb = <<>> THEN s ELSE Admitted(ClientsArePaused(s))

ProcessInputBuffer(s, p) ==
  [InputLoop([s EXCEPT !.cur = p], p) EXCEPT !.cur = NoClient]

RECURSIVE ProcessUnblockedClients(_)
ProcessUnblockedClients(s) ==
  IF s.unblocked = <<>> THEN s
  ELSE LET p == Head(s.unblocked)
           t == Unflag([s EXCEPT !.unblocked = Tail(@),
                                 !.twice = IF Contains(Tail(s.unblocked), p) THEN @
                                           ELSE @ \ {p}], p, "unblocked")
       IN  ProcessUnblockedClients(
             IF Has(t, p, "blocked") \/ t.c[p].qb = <<>> THEN t
             ELSE ProcessInputBuffer(t, p))

-----------------------------------------------------------------------------
(* Writing                                                                   *)

(* The part of writeToClient that goes through the list of replies, when the *)
(* socket takes n bytes.                                                     *)
RECURSIVE WriteList(_, _)
WriteList(r, n) ==
  IF r.reply = <<>> THEN r
  ELSE LET left == Len(Head(r.reply)) - r.sent
       IN  IF n < left THEN [r EXCEPT !.sent = @ + n]
           ELSE WriteList([r EXCEPT !.reply = Tail(@), !.sent = 0], n - left)

(* What a client is still owed, in the order it will be written.             *)
Unsent(r) ==
  IF r.buf # <<>> THEN From(r.buf, r.sent) \o FlattenSeq(r.reply)
  ELSE From(FlattenSeq(r.reply), r.sent)

Written(r, n) ==
  LET left == Len(r.buf) - r.sent
  IN  IF r.buf # <<>> /\ n < left THEN [r EXCEPT !.sent = @ + n]
      ELSE WriteList([r EXCEPT !.buf = <<>>,
                               !.sent = IF r.buf # <<>> THEN 0 ELSE @],
                     IF r.buf # <<>> THEN n - left ELSE n)

(* writeToClient, when the socket takes n bytes, or fails (n = -1).          *)
WriteToClient(s, p, handler, n) ==
  LET r == s.c[p]
      took == SubSeq(Unsent(r), 1, IF n < Len(Unsent(r)) THEN n ELSE Len(Unsent(r)))
      w == Written(r, n)
      t == [s EXCEPT !.c[p] = [w EXCEPT !.seen = IF n > 0 THEN s.now ELSE @],
                     !.got[p] = @ \o took]
  IN  IF n = -1 THEN FreeClient(s, p, "peer")
      ELSE IF ClientHasPendingReplies(w) THEN t
      ELSE IF Has(s, p, "after") THEN FreeClient(t, p, "done")
      ELSE IF handler THEN [t EXCEPT !.c[p].handler = FALSE]
      ELSE t

(* handleClientsWithPendingWrites; the socket of client p takes n[p] bytes.  *)
RECURSIVE HandleClientsWithPendingWrites(_, _)
HandleClientsWithPendingWrites(s, n) ==
  IF s.pending = <<>> THEN s
  ELSE LET p == Head(s.pending)
           t == Unflag([s EXCEPT !.pending = Tail(@)], p, "pending")
           w == WriteToClient(t, p, FALSE, n[p])
       IN  HandleClientsWithPendingWrites(
             IF w.c[p] # NoClient /\ ClientHasPendingReplies(w.c[p])
             THEN [w EXCEPT !.c[p].handler = TRUE] ELSE w, n)

-----------------------------------------------------------------------------
(* The cron                                                                  *)

ClientsCronHandleTimeout(s, p) ==
  LET r == s.c[p]
  IN  IF cscen.idle > 0 /\ ~Has(s, p, "blocked") /\ s.now - r.seen > cscen.idle
      THEN FreeClient(s, p, "idle")
      ELSE IF Has(s, p, "blocked") /\ r.deadline # 0 /\ r.deadline < s.now
      THEN UnblockClient(AddReply(s, p, <<Reply(s, p)>>), p)
      ELSE s

(* clientsCron turns the list one step before each client it looks at; with  *)
(* fewer than CLIENTS_CRON_MIN_ITERATIONS clients it looks at all of them.   *)
RECURSIVE ClientsCron(_, _)
ClientsCron(s, k) ==
  IF k = 0 \/ s.clients = <<>> THEN s
  ELSE LET p == Last(s.clients)
           turned == [s EXCEPT !.clients = <<p>> \o Front(@)]
       IN  ClientsCron(ClientsCronHandleTimeout(turned, p), k - 1)

-----------------------------------------------------------------------------
(* The event loop                                                            *)

(* What the peers send: each command as a multibulk, as an inline line ended *)
(* by CR LF or by LF alone, or as a multibulk whose argument has no header.  *)
EncodeArg(arg) == <<<<"$", Len(arg)>>, CR, LF>> \o arg \o <<CR, LF>>
EncodeCmd(cmd) ==
  CASE cmd.form = "multi" ->
         <<<<"*", Len(cmd.args)>>, CR, LF>>
           \o FlattenSeq([i \in DOMAIN cmd.args |-> EncodeArg(cmd.args[i])])
    [] cmd.form = "inline" -> cmd.args[1] \o <<CR, LF>>
    [] cmd.form = "lf" -> cmd.args[1] \o <<LF>>
    [] cmd.form = "headless" -> <<<<"*", 1>>, CR, LF>> \o cmd.args[1] \o <<CR, LF>>

Encode(cmds) == FlattenSeq([i \in DOMAIN cmds |-> EncodeCmd(cmds[i])])

CInit ==
  /\ cscen \in CScenarios
  /\ cs = [c |-> [p \in Peer |-> NoClient], clients |-> <<>>, pending |-> <<>>,
           unblocked |-> <<>>, toClose |-> <<>>, paused |-> FALSE, until |-> 0,
           now |-> 1, cur |-> NoClient, ran |-> [p \in Peer |-> <<>>],
           got |-> [p \in Peer |-> <<>>], why |-> [p \in Peer |-> {}],
           twice |-> {}]
  /\ wire = [p \in Peer |-> [in |-> Encode(cscen.cmds[p]), state |-> "new"]]

(* acceptCommonHandler.                                                      *)
AcceptCommonHandler(p) ==
  /\ wire[p].state = "new" /\ wire[p].in # <<>>
  /\ LET s == [cs EXCEPT !.c[p] = CreateClient(cs.now), !.clients = Append(@, p)]
     IN  cs' = IF Len(s.clients) > cscen.maxclients
               THEN [FreeClient(s, p, "max") EXCEPT !.got[p] = <<Fail>>] ELSE s
  /\ wire' = [wire EXCEPT ![p].state = "open"]
  /\ UNCHANGED cscen

(* How many bytes readQueryFromClient asks for: only the rest of a big       *)
(* argument, so that the buffer can become the argument.                     *)
ReadLen(r) ==
  LET remaining == r.bl + 2 - Len(r.qb)
  IN  IF r.req = "multibulk" /\ r.mbl > 0 /\ r.bl >= BigArg /\ remaining < IoLen
      THEN remaining ELSE IoLen

(* readQueryFromClient, when k bytes have arrived: read(2) returns what was  *)
(* asked for or what is there, and 0 both when the peer closed and when it   *)
(* was asked for nothing, which it is when the buffer holds the whole of a   *)
(* big argument that nobody has parsed yet.  Either is taken for the end of  *)
(* the connection.                                                           *)
ReadQueryFromClient(p, k) ==
  /\ cs.c[p] # NoClient
  /\ wire[p].in # <<>> \/ wire[p].state = "closed"
  /\ LET n == Min({k, ReadLen(cs.c[p]), Len(wire[p].in)})
         s == [cs EXCEPT !.c[p].qb = @ \o SubSeq(wire[p].in, 1, n),
                         !.c[p].seen = cs.now]
         held == /\ wire[p].state # "closed" /\ ReadLen(cs.c[p]) = 0
                 /\ cs.paused \/ Has(cs, p, "unblocked")
     IN  /\ wire' = [wire EXCEPT ![p].in = From(@, IF n > 0 THEN n ELSE 0)]
         /\ cs' = IF n <= 0 THEN FreeClient(cs, p, IF held THEN "held" ELSE "peer")
                  ELSE IF Len(s.c[p].qb) > cscen.maxqb
                  THEN FreeClient(s, p, "querybuf")
                  ELSE ProcessInputBuffer(s, p)
  /\ UNCHANGED cscen

(* What write(2) may do: take some of the bytes, or fail once the peer is    *)
(* gone.                                                                     *)
Taken(p) == IF wire[p].state = "closed" THEN {-1} ELSE cscen.writes

SendReplyToClient(p, n) ==
  /\ cs.c[p] # NoClient /\ cs.c[p].handler
  /\ n \in Taken(p)
  /\ cs' = WriteToClient(cs, p, TRUE, n)
  /\ UNCHANGED <<wire, cscen>>

ClientsBeforeSleep(n) ==
  /\ \A p \in Peer : n[p] \in Taken(p)
  /\ cs.unblocked # <<>> \/ cs.pending # <<>>
  /\ cs' = HandleClientsWithPendingWrites(ProcessUnblockedClients(cs), n)
  /\ UNCHANGED <<wire, cscen>>

(* The clock stops at the scenario's end, once no timer is pending.          *)
ClockRuns ==
  \/ cs.now < cscen.end
  \/ cs.paused
  \/ \E p \in Peer : cs.c[p] # NoClient /\ Has(cs, p, "blocked") /\ cs.c[p].deadline # 0

(* The client part of serverCron.                                            *)
ClientsServerCron ==
  /\ cs' = LET s == [cs EXCEPT !.now = IF ClockRuns THEN @ + 1 ELSE @]
           IN  ClientsArePaused(FreeClientsInAsyncFreeQueue(
                 ClientsCron(s, Len(s.clients))))
  /\ UNCHANGED <<wire, cscen>>

PeerClose(p) ==
  /\ p \in cscen.leave /\ wire[p].state = "open"
  /\ wire' = [wire EXCEPT ![p].state = "closed"]
  /\ UNCHANGED <<cs, cscen>>

CNext ==
  \/ \E p \in Peer : AcceptCommonHandler(p) \/ PeerClose(p)
  \/ \E p \in Peer, k \in cscen.reads : ReadQueryFromClient(p, k)
  \/ \E p \in Peer, n \in {-1} \cup cscen.writes : SendReplyToClient(p, n)
  \/ \E n \in [Peer -> {-1} \cup cscen.writes] : ClientsBeforeSleep(n)
  \/ ClientsServerCron

CSpec == CInit /\ [][CNext]_cvars

(* The event loop polls every descriptor and runs beforeSleep and the cron   *)
(* for ever, and a peer that stays reads what it is sent.  Each of these     *)
(* steps uses up what it works on, so that weak fairness of the steps is     *)
(* that, again and again, nothing is left for them to do.                    *)
CronIdle ==
  /\ ~ClockRuns /\ cs.toClose = <<>>
  /\ \A i \in DOMAIN cs.clients :
       ClientsCronHandleTimeout(cs, cs.clients[i]) = cs

CLoopFairness ==
  /\ []<>(\A p \in Peer : wire[p].in = <<>> \/ (wire[p].state # "new" /\ cs.c[p] = NoClient))
  /\ []<>(\A p \in Peer : cs.c[p] # NoClient => ~cs.c[p].handler)
  /\ []<>(cs.unblocked = <<>> /\ cs.pending = <<>>)
  /\ []<>CronIdle

CFairSpec == CSpec /\ CLoopFairness

-----------------------------------------------------------------------------
(* Properties                                                                *)

Live(p) == cs.c[p] # NoClient
NoDups(q) == \A i, j \in DOMAIN q : q[i] = q[j] => i = j

(* The lists of the server hold no client twice and no client that was       *)
(* freed, a client is on a list exactly when its flag says so, and a client  *)
(* with replies to send is on the list of pending writes or has the write    *)
(* handler installed: addReply, the write handler and freeClient between     *)
(* them never leave a reply behind that nobody would send.  Left out is the  *)
(* list of unblocked clients after a pause has ended while a client was on   *)
(* it and before the list is processed: clientsArePaused queues that client  *)
(* again without looking at its flag.  No scenario frees a client that is    *)
(* queued twice, of which unlinkClient would remove one entry only.          *)
ListsExact ==
  /\ \A q \in {cs.clients, cs.pending, cs.toClose} : NoDups(q)
  /\ cs.twice = {} => NoDups(cs.unblocked)
  /\ \A q \in {cs.clients, cs.pending, cs.unblocked, cs.toClose} :
       \A i \in DOMAIN q : Live(q[i])
  /\ \A p \in Peer : Live(p) =>
       /\ Contains(cs.clients, p)
       /\ Has(cs, p, "pending") = Contains(cs.pending, p)
       /\ Has(cs, p, "unblocked") = Contains(cs.unblocked, p)
       /\ Has(cs, p, "asap") = Contains(cs.toClose, p)
       /\ ClientHasPendingReplies(cs.c[p]) =>
            Has(cs, p, "pending") \/ cs.c[p].handler

(* However the bytes of a client are split over reads, and whatever blocks,  *)
(* pauses or closes clients meanwhile, processInputBuffer runs the commands  *)
(* the client sent, in order, with the arguments it sent: nothing is lost,   *)
(* repeated, cut or joined with what follows.                                *)
RunsWhatWasSent ==
  \A p \in Peer : \A i \in DOMAIN cs.ran[p] :
    cs.ran[p][i] = cscen.cmds[p][i].args

(* The replies due for the commands a client ran: CLIENT REPLY OFF silences  *)
(* until ON, SKIP the next command only.                                     *)
RepliesOf(name) == IF name = "long" THEN 4 ELSE IF name \in {"off", "skip"} THEN 0 ELSE 1

RECURSIVE DueFrom(_, _, _)
DueFrom(ran, k, mode) ==
  IF k > Len(ran) THEN <<>>
  ELSE LET name == ran[k][1][1][2]
           answered == mode = "on" \/ name = "on"
           next == CASE name \in {"on", "off"} -> name
                     [] name = "skip" -> IF mode = "off" THEN "off" ELSE "skip"
                     [] OTHER -> IF mode = "off" THEN "off" ELSE "on"
       IN  (IF answered THEN [i \in 1..RepliesOf(name) |-> <<"r", k>>] ELSE <<>>)
             \o DueFrom(ran, k + 1, next)

Owed(p) ==
  DueFrom(IF Live(p) /\ Has(cs, p, "blocked") THEN Front(cs.ran[p]) ELSE cs.ran[p],
          1, "on")

(* What a client received, followed by what it is still owed, is exactly the *)
(* replies to the commands it ran, in order, each byte once, whatever part   *)
(* of each write the socket took: the static buffer, the list of chunks and  *)
(* sentlen never lose, repeat or swap a reply.                               *)
RepliesInOrder ==
  \A p \in Peer : Live(p) /\ cs.why[p] \cap {"protocol", "role"} = {} =>
    cs.got[p] \o Unsent(cs.c[p]) = Owed(p)

(* A connection is closed only for a reason: its peer closed it, it asked    *)
(* for it or was killed, it broke a limit or the protocol, or it was idle.   *)
(* The peer still there is not taken for one that left, except during a      *)
(* pause (held): readQueryFromClient goes on reading then, asks for nothing  *)
(* once it has all of a big argument that waits for the pause to end, and    *)
(* closes the connection of a client that has sent anything behind it.       *)
ClosedForReason ==
  \A p \in Peer :
    /\ "peer" \in cs.why[p] => wire[p].state = "closed"
    /\ "protocol" \in cs.why[p] =>
         \E i \in DOMAIN cscen.cmds[p] : cscen.cmds[p][i].form = "headless"

(* From CLIENT PAUSE until its time is over no command of any client is      *)
(* processed (pauseClients), wherever the commands were waiting.             *)
PausedRunsNothing ==
  [][cs.until >= cs.now => cs'.ran = cs.ran]_cvars

(* Every client that stays connected eventually has all its commands run and *)
(* all their replies delivered: a blocked client that times out, a paused    *)
(* one, and one whose socket is slow are all resumed.  Only a client blocked *)
(* without a timeout may wait for ever.                                      *)
AllAnswered ==
  <>[](\A p \in Peer : Live(p) /\ ~(Has(cs, p, "blocked") /\ cs.c[p].deadline = 0) =>
         /\ Len(cs.ran[p]) = Len(cscen.cmds[p])
         /\ cs.got[p] = Owed(p))

=============================================================================

---------------------------- MODULE SentinelLink ----------------------------
(***************************************************************************)
(* How a Sentinel watches one instance (redis-4.0.6/src/sentinel.c): the   *)
(* two asynchronous connections of its instanceLink, the commands pending  *)
(* on them, the PING that measures liveness, and the S_DOWN flag.  Clocks  *)
(* are the set "due" of periods that have passed, and the argument "old":  *)
(* more than down_after_period has passed since the moment looked at.      *)
(***************************************************************************)
EXTENDS Integers, Sequences

CONSTANTS
  MaxPending,     \* SENTINEL_MAX_PENDING_COMMANDS, times the refcount
  PendingBound    \* bound: replies a closed Pub/Sub connection may leave owed

ASSUME LinkAssumption == MaxPending \in Nat \ {0} /\ PendingBound > MaxPending

VARIABLES
  lk,     \* the instanceLink: cc, pc, disconnected, pending, replies, act_ping
  due,    \* the periods of INFO, PING and PUBLISH that have passed
  hung,   \* the instance accepts connections and answers nothing
  sdown   \* SRI_S_DOWN

linkVars == <<lk, due, hung, sdown>>

Periods == {"INFO", "PING", "PUBLISH"}

(* createInstanceLink: the clock of the first PING starts at once. *)
CreateInstanceLink ==
  [cc |-> FALSE, pc |-> FALSE, disconnected |-> TRUE, pending |-> 0,
   replies |-> << >>, pcReplies |-> 0, act_ping |-> TRUE]

CloseCommands(l) ==
  IF l.cc THEN [l EXCEPT !.cc = FALSE, !.pending = 0, !.replies = << >>, !.disconnected = TRUE]
          ELSE l

(* The replies still owed to the Pub/Sub connection stay in pending. *)
ClosePubSub(l) ==
  IF l.pc THEN [l EXCEPT !.pc = FALSE, !.pcReplies = 0, !.disconnected = TRUE] ELSE l

Queue(l, cmd) == [l EXCEPT !.pending = @ + 1, !.replies = Append(@, cmd)]

(* act_ping_time keeps the time of the first PING without an answer. *)
SendPing(l) == [Queue(l, "PING") EXCEPT !.act_ping = TRUE]

(* Mutant: a new connection forgets that a PING was never answered. *)
ReconnectInstance_FreshPing(l, up) ==
  IF ~l.disconnected \/ ~up THEN l
  ELSE [l EXCEPT !.cc = TRUE, !.pc = TRUE, !.disconnected = FALSE, !.act_ping = FALSE]

(* Whatever connection is missing is opened again; up: connect() succeeds. *)
ReconnectInstance(l, up) ==
  IF ~l.disconnected \/ ~up THEN l
  ELSE LET c == IF l.cc THEN l
                ELSE SendPing(Queue([l EXCEPT !.cc = TRUE, !.pending = 0], "SETNAME"))
           p == IF l.pc THEN c
                ELSE [c EXCEPT !.pc = TRUE, !.pending = @ + 1, !.pcReplies = 1]
       IN [p EXCEPT !.disconnected = FALSE]

(* At most one command per call, INFO before PING before PUBLISH. *)
SendPeriodicCommands(l) ==
  IF l.disconnected \/ l.pending >= MaxPending THEN l
  ELSE IF "INFO" \in due THEN Queue(l, "INFO")
  ELSE IF "PING" \in due THEN SendPing(l)
  ELSE IF "PUBLISH" \in due THEN Queue(l, "PUBLISH")
  ELSE l

(* sentinelCheckSubjectivelyDown: slow connections are closed, if they     *)
(* were not opened just now (lk is the link before the call), and the flag *)
(* follows the clock.                                                      *)
CheckLink(l, old, idle) ==
  LET quiet == (l.act_ping \/ l.disconnected) /\ old
      c == IF lk.cc /\ l.act_ping /\ old THEN CloseCommands(l) ELSE l
  IN [link |-> IF lk.pc /\ idle THEN ClosePubSub(c) ELSE c, down |-> quiet]

(* sentinelHandleRedisInstance, with the periods that have passed by then. *)
HandleInstance(old, up, idle) ==
  LET l == SendPeriodicCommands(ReconnectInstance(lk, up))
      r == CheckLink(l, old, idle)
      ping == l.replies # << >> /\ l.replies[Len(l.replies)] = "PING"
  IN /\ idle /\ lk.pcReplies > 0 => lk.pending < PendingBound
     /\ lk' = r.link
     /\ sdown' = r.down
     /\ due' = IF ping /\ Len(l.replies) > Len(lk.replies) THEN due \ {"PING"} ELSE due
     /\ UNCHANGED hung

(* The INFO, PONG and PUBLISH reply callbacks, and the discarding one. *)
ReplyCallback ==
  /\ ~hung /\ lk.cc /\ lk.replies # << >>
  /\ LET cmd == Head(lk.replies)
     IN /\ lk' = [lk EXCEPT !.replies = Tail(@), !.pending = @ - 1,
                            !.act_ping = @ /\ cmd # "PING"]
        /\ due' = due \ {cmd}
  /\ UNCHANGED <<hung, sdown>>

(* The Pub/Sub connection answers CLIENT SETNAME. *)
PubSubReply ==
  /\ ~hung /\ lk.pc /\ lk.pcReplies > 0
  /\ lk' = [lk EXCEPT !.pcReplies = @ - 1, !.pending = @ - 1]
  /\ UNCHANGED <<due, hung, sdown>>

(* hiredis lost a connection and reports it. *)
LinkConnectionError ==
  /\ lk.cc \/ lk.pc
  /\ \/ lk.cc /\ lk' = [lk EXCEPT !.cc = FALSE, !.replies = << >>, !.disconnected = TRUE]
     \/ lk.pc /\ lk' = [lk EXCEPT !.pc = FALSE, !.pending = @ - lk.pcReplies,
                                  !.pcReplies = 0, !.disconnected = TRUE]
  /\ UNCHANGED <<due, hung, sdown>>

(* A period passes without its command having been answered. *)
PeriodPasses(p) == p \notin due /\ due' = due \cup {p} /\ UNCHANGED <<lk, hung, sdown>>

(* The instance stops and resumes answering. *)
Hang == hung' = ~hung /\ UNCHANGED <<lk, due, sdown>>

LinkInit == lk = CreateInstanceLink /\ due = Periods /\ hung = FALSE /\ sdown = FALSE

LinkNext ==
  \/ \E old, up, idle \in BOOLEAN : HandleInstance(old, up, idle)
  \/ ReplyCallback \/ PubSubReply \/ LinkConnectionError
  \/ \E p \in Periods : PeriodPasses(p)
  \/ Hang

(* The timer runs for ever and time passes. *)
LinkSpec ==
  /\ LinkInit /\ [][LinkNext]_linkVars
  /\ WF_linkVars(\E idle \in BOOLEAN : HandleInstance(TRUE, TRUE, idle))
  /\ \A p \in Periods : WF_linkVars(PeriodPasses(p))
-----------------------------------------------------------------------------
(* An instance that stops answering with a PING outstanding is flagged     *)
(* S_DOWN, however often its connections are closed and opened again:      *)
(* act_ping_time survives the reconnection.                                *)
PingDetectsHang == hung /\ lk.act_ping ~> sdown \/ ~hung
=============================================================================

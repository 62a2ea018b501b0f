---------------------------- MODULE ClusterSlots ----------------------------
(* Moving a hash slot between the masters of a Redis Cluster while clients   *)
(* use its keys (cluster.c): how a node routes a request (getNodeByQuery),   *)
(* the redirections a client follows, CLUSTER SETSLOT, MIGRATE with its      *)
(* RESTORE on the target, the slot claims in the headers nodes exchange, and *)
(* redis-trib's move_slot as the program that drives them.                   *)
(*                                                                           *)
(* There is one slot that moves; every node also has slots that stay, so     *)
(* that a master never loses its last slot.                                  *)
EXTENDS Integers, Sequences, FiniteSets, FiniteSetsExt

CONSTANTS SNode,  \* the masters
          Key,    \* keys of the slot
          Client,
          Nil,
          MScenarios

VARIABLES sn,     \* the nodes
          bus,    \* headers on their way between nodes
          sock,   \* RESTOREs left in the sockets of targets by a MIGRATE that failed
          stray,  \* ghost: the targets and keys of such a MIGRATE, not acknowledged
          mg,     \* the MIGRATE in progress
          tr,     \* redis-trib
          cl,     \* the clients' requests
          truth,  \* ghost: the value of each key for a client
          mbud, mscen

mvars == <<sn, bus, sock, stray, mg, tr, cl, truth, mbud, mscen>>

MSpend(what) == mbud[what] > 0 /\ mbud' = [mbud EXCEPT ![what] = @ - 1]

KeysOf(n) == {k \in Key : sn[n].keys[k] # Nil}

----------------------------------------------------------------------------
(* Routing *)

\* getNodeByQuery, looking up the keys of a request: whether the slot is open at
\* this node, and how many of the keys are missing then.
SlotState(n, ks) ==
  LET me == sn[n]
      migrating == me.own = n /\ me.migrating # Nil
      importing == ~migrating /\ me.importing # Nil
  IN [migrating |-> migrating, importing |-> importing,
      missing |-> (migrating \/ importing) /\ \E k \in ks : me.keys[k] = Nil]

\* getNodeByQuery, the decision, at a node with the cluster up.
Route(n, ks, asking) ==
  LET me == sn[n]
      st == SlotState(n, ks)
  IN IF me.own = Nil THEN [code |-> "down", to |-> Nil]
     ELSE IF st.migrating /\ st.missing THEN [code |-> "ask", to |-> me.migrating]
     ELSE IF st.importing /\ asking
     THEN IF Cardinality(ks) > 1 /\ st.missing THEN [code |-> "tryagain", to |-> Nil]
          ELSE [code |-> "serve", to |-> n]
     ELSE [code |-> IF me.own = n THEN "serve" ELSE "moved", to |-> me.own]

----------------------------------------------------------------------------
(* Clients *)

\* A node executes nothing while it waits in MIGRATE for the target.
Responsive(n) == mg # Nil => mg.from # n

\* A client sends a request to some node: a read or a write of ks, or a
\* blocking pop of one key.
Issue(c, kind, ks, n) ==
  /\ cl[c] = Nil /\ MSpend("req")
  /\ kind = "pop" => Cardinality(ks) = 1
  /\ cl' = [cl EXCEPT ![c] = [kind |-> kind, ks |-> ks, v |-> mbud.req, at |-> n, home |-> n,
                              asking |-> FALSE, blocked |-> FALSE]]
  /\ UNCHANGED <<sn, bus, sock, stray, mg, tr, truth, mscen>>

\* clusterRedirectClient, and what the client does then: go to the node named
\* by MOVED and remember it, or by ASK for this once; after TRYAGAIN or
\* CLUSTERDOWN start over.
Redirected(q, r) ==
  CASE r.code = "moved" -> [q EXCEPT !.at = r.to, !.home = r.to, !.asking = FALSE]
    [] r.code = "ask" -> [q EXCEPT !.at = r.to, !.asking = TRUE]
    [] OTHER -> [q EXCEPT !.at = q.home, !.asking = FALSE]

\* Clients blocked at n on one of ks: the first gets the value written, and the
\* key is gone again.
Waiters(n, ks) == {c \in Client : cl[c] # Nil /\ cl[c].blocked /\ cl[c].at = n /\ cl[c].ks \subseteq ks}

\* processCommand at the node the request has reached.
Serve(c) ==
  LET q == cl[c]
      r == Route(q.at, q.ks, q.asking)
      k1 == CHOOSE k \in q.ks : TRUE
      done == [cl EXCEPT ![c] = Nil]
  IN /\ q # Nil /\ ~q.blocked /\ Responsive(q.at)
     /\ IF r.code # "serve"
        THEN cl' = [cl EXCEPT ![c] = Redirected(q, r)] /\ UNCHANGED <<sn, truth>>
        ELSE CASE q.kind = "get" -> cl' = done /\ UNCHANGED <<sn, truth>>
               [] q.kind \in {"set", "del"} ->
                    LET v == IF q.kind = "set" THEN q.v ELSE Nil
                        served == IF v = Nil \/ Waiters(q.at, q.ks) = {} THEN {}
                                  ELSE {CHOOSE w \in Waiters(q.at, q.ks) : TRUE}
                        gone == UNION {cl[w].ks : w \in served}
                        new(old) == [k \in Key |-> IF k \in gone THEN Nil
                                                   ELSE IF k \in q.ks THEN v ELSE old[k]]
                    IN /\ sn' = [sn EXCEPT ![q.at].keys = new(@)]
                       /\ truth' = new(truth)
                       /\ cl' = [w \in Client |-> IF w = c \/ w \in served THEN Nil ELSE cl[w]]
               [] q.kind = "pop" /\ sn[q.at].keys[k1] # Nil ->
                    /\ sn' = [sn EXCEPT ![q.at].keys[k1] = Nil]
                    /\ truth' = [truth EXCEPT ![k1] = Nil]
                    /\ cl' = done
               [] OTHER -> /\ cl' = [cl EXCEPT ![c].blocked = TRUE, ![c].asking = FALSE]
                           /\ UNCHANGED <<sn, truth>>
     /\ UNCHANGED <<bus, sock, stray, mg, tr, mbud, mscen>>

\* clusterRedirectBlockedClientIfNeeded, from clientsCron.
RedirectBlocked(c) ==
  LET q == cl[c] IN
  /\ q # Nil /\ q.blocked /\ Responsive(q.at)
  /\ sn[q.at].own # q.at /\ sn[q.at].importing = Nil
  /\ cl' = [cl EXCEPT ![c] = [q EXCEPT !.blocked = FALSE, !.at = sn[q.at].own, !.home = sn[q.at].own]]
  /\ UNCHANGED <<sn, bus, sock, stray, mg, tr, truth, mbud, mscen>>

----------------------------------------------------------------------------
(* MIGRATE *)

\* migrateCommand, up to the wait for replies: the values are sent as
\* RESTORE-ASKING commands over one connection.
MigrateStart(from, to, replace) ==
  mg' = IF KeysOf(from) = {} THEN mg
        ELSE [from |-> from, to |-> to, replace |-> replace, cmds |-> [k \in KeysOf(from) |-> sn[from].keys[k]],
              replies |-> <<>>, read |-> FALSE, error |-> "no", retry |-> TRUE]

\* restoreCommand on the target, for one of the commands.
Restored(n, k, v, replace) ==
  LET r == Route(n, {k}, TRUE)
      busy == ~replace /\ sn[n].keys[k] # Nil
  IN [keys |-> IF r.code = "serve" /\ ~busy THEN [sn[n].keys EXCEPT ![k] = v] ELSE sn[n].keys,
      error |-> IF r.code # "serve" THEN "refused" ELSE IF busy THEN "busy" ELSE "no"]
RestoreCommand ==
  /\ mg # Nil /\ DOMAIN mg.cmds # {} /\ Responsive(mg.to)
  /\ LET k == CHOOSE x \in DOMAIN mg.cmds : TRUE
         r == Restored(mg.to, k, mg.cmds[k], mg.replace)
     IN /\ sn' = [sn EXCEPT ![mg.to].keys = r.keys]
        /\ mg' = [mg EXCEPT !.cmds = [x \in DOMAIN @ \ {k} |-> @[x]],
                            !.replies = Append(@, [k |-> k, error |-> r.error])]
  /\ UNCHANGED <<bus, sock, stray, tr, cl, truth, mbud, mscen>>

\* What redis-trib makes of the answer to MIGRATE: with the fix option it sends
\* it again with REPLACE after BUSYKEY; any other error ends it.
TribAnswered(error, replace) ==
  CASE error = "no" -> tr
    [] error = "busy" /\ mscen.fix /\ ~replace -> [tr EXCEPT !.replace = TRUE]
    [] OTHER -> [tr EXCEPT !.moves = <<>>]

\* migrateCommand reading a reply: the key is deleted if the target has it.  The
\* first error is the answer.
MigrateReply ==
  /\ mg # Nil /\ mg.replies # <<>>
  /\ LET r == Head(mg.replies)
         last == DOMAIN mg.cmds = {} /\ Len(mg.replies) = 1
         error == IF mg.error = "no" THEN r.error ELSE mg.error
     IN /\ sn' = IF r.error = "no" THEN [sn EXCEPT ![mg.from].keys[r.k] = Nil] ELSE sn
        /\ mg' = IF last THEN Nil ELSE [mg EXCEPT !.replies = Tail(@), !.read = TRUE, !.error = error]
        /\ tr' = IF last THEN TribAnswered(error, mg.replace) ELSE tr
  /\ UNCHANGED <<bus, sock, stray, cl, truth, mbud, mscen>>

\* The connection fails: the replies that have not been read are lost and their
\* keys stay; what is in the target's socket may still be run.  Unless it was
\* a timeout, MIGRATE tries once more when it has read no reply; redis-trib gets
\* an error.
MigrateFails(timedout) ==
  LET again == ~timedout /\ mg.retry /\ ~mg.read
      keys == KeysOf(mg.from)
  IN /\ mg # Nil /\ MSpend(IF timedout THEN "timeout" ELSE "reset")
     /\ mg' = IF again THEN [mg EXCEPT !.cmds = [k \in keys |-> sn[mg.from].keys[k]], !.replies = <<>>,
                                      !.retry = FALSE]
              ELSE Nil
     /\ tr' = IF again THEN tr ELSE TribAnswered(IF mg.error = "no" THEN "ioerr" ELSE mg.error, mg.replace)
     /\ sock' = sock \cup {[to |-> mg.to, k |-> k, v |-> mg.cmds[k], replace |-> mg.replace] : k \in DOMAIN mg.cmds}
     /\ stray' = stray \cup ({mg.to} \X keys)
     /\ UNCHANGED <<sn, bus, cl, truth, mscen>>

\* The target runs a command of a connection that has failed.
LateRestore(m) ==
  /\ Responsive(m.to)
  /\ sn' = [sn EXCEPT ![m.to].keys = Restored(m.to, m.k, m.v, m.replace).keys]
  /\ sock' = sock \ {m}
  /\ UNCHANGED <<bus, stray, mg, tr, cl, truth, mbud, mscen>>

----------------------------------------------------------------------------
(* CLUSTER SETSLOT *)

\* clusterBumpConfigEpochWithoutConsensus.
BumpEpoch(me, n) ==
  IF me.ep[n] = 0 \/ me.ep[n] # Max({me.ep[m] : m \in SNode} \cup {me.cur})
  THEN [me EXCEPT !.cur = @ + 1, !.ep[n] = me.cur + 1] ELSE me

\* Mutant: the new owner keeps its epoch.
SetSlotNode_NoBump(n, to) ==
  LET me == sn[n]
      empty == KeysOf(n) = {}
      closed == IF empty THEN [me EXCEPT !.migrating = Nil] ELSE me
      imported == IF to = n THEN [closed EXCEPT !.importing = Nil] ELSE closed
  IN IF me.own = n /\ to # n /\ ~empty THEN me ELSE [imported EXCEPT !.own = to]

\* SETSLOT NODE: refused by an owner that still has keys.  The importing node
\* makes itself a new epoch, so that its claim wins.
SetSlotNode(n, to) ==
  LET me == sn[n]
      empty == KeysOf(n) = {}
      closed == IF empty THEN [me EXCEPT !.migrating = Nil] ELSE me
      imported == IF to = n /\ me.importing # Nil
                  THEN [BumpEpoch(closed, n) EXCEPT !.importing = Nil] ELSE closed
  IN IF me.own = n /\ to # n /\ ~empty THEN me ELSE [imported EXCEPT !.own = to]

\* SETSLOT MIGRATING, IMPORTING and STABLE.
SetSlotMigrating(n, to) == IF sn[n].own = n THEN [sn[n] EXCEPT !.migrating = to] ELSE sn[n]
SetSlotImporting(n, from) == IF sn[n].own # n THEN [sn[n] EXCEPT !.importing = from] ELSE sn[n]
SetSlotStable(n) == [sn[n] EXCEPT !.migrating = Nil, !.importing = Nil]

\* CLUSTER ADDSLOTS of a slot nobody has, and DELSLOTS.
SlotsCommand(n, del) ==
  /\ Responsive(n) /\ MSpend("slots")
  /\ del <=> sn[n].own # Nil
  /\ sn' = [sn EXCEPT ![n].own = IF del THEN Nil ELSE n, ![n].importing = Nil]
  /\ UNCHANGED <<bus, sock, stray, mg, tr, cl, truth, mscen>>

\* All nodes know each other's epochs: an assumption of the scenarios that move
\* the slot more than once.
Settled == \A m, n \in SNode : sn[n].ep[m] = sn[m].ep[m]

\* redis-trib's move_slot: importing, migrating, keys until there are none, then
\* the new owner to every node in the order of the scenario.
Trib ==
  /\ mg = Nil /\ tr.moves # <<>>
  /\ mscen.settled /\ tr.pc = 1 => Settled
  /\ LET m == Head(tr.moves)
         node == mscen.order[tr.pc - 3]
     IN CASE tr.pc = 1 -> /\ sn' = [sn EXCEPT ![m.to] = SetSlotImporting(m.to, m.from)]
                          /\ tr' = [tr EXCEPT !.pc = 2] /\ UNCHANGED mg
          [] tr.pc = 2 -> /\ sn' = [sn EXCEPT ![m.from] = SetSlotMigrating(m.from, m.to)]
                          /\ tr' = [tr EXCEPT !.pc = 3] /\ UNCHANGED mg
          [] tr.pc = 3 -> /\ MigrateStart(m.from, m.to, tr.replace)
                          /\ tr' = [tr EXCEPT !.pc = IF KeysOf(m.from) = {} THEN 4 ELSE 3, !.replace = FALSE]
                          /\ UNCHANGED sn
          [] OTHER -> /\ sn' = [sn EXCEPT ![node] = SetSlotNode(node, m.to)]
                      /\ tr' = IF tr.pc - 3 = Len(mscen.order)
                               THEN [tr EXCEPT !.pc = 1, !.moves = Tail(@)]
                               ELSE [tr EXCEPT !.pc = @ + 1]
                      /\ UNCHANGED mg
  /\ UNCHANGED <<bus, sock, stray, cl, truth, mbud, mscen>>

\* redis-trib is interrupted; the slot is then closed by hand on one node.
TribDies ==
  /\ mg = Nil /\ tr.moves # <<>> /\ MSpend("die")
  /\ tr' = [tr EXCEPT !.moves = <<>>]
  /\ UNCHANGED <<sn, bus, sock, stray, mg, cl, truth, mscen>>
CloseSlot(n) ==
  /\ Responsive(n) /\ tr.moves = <<>> /\ MSpend("stable")
  /\ sn' = [sn EXCEPT ![n] = SetSlotStable(n)]
  /\ UNCHANGED <<bus, sock, stray, mg, tr, cl, truth, mscen>>

----------------------------------------------------------------------------
(* The cluster bus, and restarts *)

\* A header: the sender's epochs and whether it claims the slot.
SendHeader(m, n) ==
  /\ m # n /\ Responsive(m) /\ Cardinality(bus) < mscen.msgs
  /\ MSpend("msg")
  /\ bus' = bus \cup {[from |-> m, to |-> n, ep |-> sn[m].ep[m], cur |-> sn[m].cur,
                       claims |-> sn[m].own = m]}
  /\ UNCHANGED <<sn, sock, stray, mg, tr, cl, truth, mscen>>

\* Mutant: a claim is believed whatever its epoch.
UpdateSlotConfig_AnyEpoch(n, m) ==
  LET me == [sn[n] EXCEPT !.ep[m.from] = IF m.ep > @ THEN m.ep ELSE @,
                          !.cur = IF m.cur > @ THEN m.cur ELSE @]
      lost == me.own = n
  IN IF m.claims /\ me.own # m.from /\ me.importing = Nil
     THEN [me EXCEPT !.own = m.from, !.keys = IF lost THEN [k \in Key |-> Nil] ELSE @]
     ELSE me

\* clusterProcessPacket and clusterUpdateSlotsConfigWith: a claim with a greater
\* epoch than the owner's takes the slot, unless it is being imported; an owner
\* that loses the slot deletes the keys it still has.
UpdateSlotConfig(n, m) ==
  LET me == [sn[n] EXCEPT !.ep[m.from] = IF m.ep > @ THEN m.ep ELSE @,
                          !.cur = IF m.cur > @ THEN m.cur ELSE @]
      lost == me.own = n
      wins == me.own = Nil \/ me.ep[me.own] < m.ep
  IN IF m.claims /\ me.own # m.from /\ me.importing = Nil /\ wins
     THEN [me EXCEPT !.own = m.from, !.keys = IF lost THEN [k \in Key |-> Nil] ELSE @]
     ELSE me
ReceiveHeader(m) ==
  /\ Responsive(m.to)
  /\ bus' = bus \ {m}
  /\ sn' = [sn EXCEPT ![m.to] = UpdateSlotConfig(m.to, m)]
  /\ UNCHANGED <<sock, stray, mg, tr, cl, truth, mbud, mscen>>

\* A node restarts with its data and its saved configuration;
\* verifyClusterConfigWithData opens the slot of another node it has keys of.
RestartNode(n) ==
  /\ mg = Nil /\ MSpend("restart")
  /\ sn' = [sn EXCEPT ![n] =
       IF KeysOf(n) = {} \/ @.own = n \/ @.importing # Nil THEN @
       ELSE IF @.own = Nil THEN [@ EXCEPT !.own = n]
       ELSE [@ EXCEPT !.importing = sn[n].own]]
  /\ cl' = [c \in Client |-> IF cl[c] # Nil /\ cl[c].at = n /\ cl[c].blocked
                             THEN [cl[c] EXCEPT !.blocked = FALSE] ELSE cl[c]]
  /\ UNCHANGED <<bus, sock, stray, mg, tr, truth, mscen>>

----------------------------------------------------------------------------

MInit ==
  /\ mscen \in MScenarios /\ mbud = mscen.bud
  /\ truth = [k \in Key |-> IF k \in mscen.there THEN 0 ELSE Nil]
  /\ sn = [n \in SNode |->
             [own |-> mscen.owner, cur |-> mscen.cur,
              ep |-> mscen.ep, migrating |-> Nil, importing |-> Nil,
              keys |-> [k \in Key |-> IF n = mscen.owner THEN truth[k] ELSE Nil]]]
  /\ bus = {} /\ sock = {} /\ stray = {} /\ mg = Nil /\ cl = [c \in Client |-> Nil]
  /\ tr = [pc |-> 1, moves |-> mscen.moves, replace |-> FALSE]

MNext ==
  \/ \E c \in mscen.clients, r \in mscen.reqs, n \in mscen.entry : Issue(c, r.kind, r.ks, n)
  \/ \E c \in Client : Serve(c)
  \/ \E c \in Client : RedirectBlocked(c)
  \/ RestoreCommand
  \/ MigrateReply
  \/ \E timedout \in BOOLEAN : MigrateFails(timedout)
  \/ \E m \in sock : LateRestore(m)
  \/ Trib
  \/ TribDies
  \/ \E n \in SNode : CloseSlot(n)
  \/ \E n \in mscen.adders, del \in BOOLEAN : SlotsCommand(n, del)
  \/ \E m, n \in SNode : SendHeader(m, n)
  \/ \E m \in bus : ReceiveHeader(m)
  \/ \E n \in SNode : RestartNode(n)

MSpec == MInit /\ [][MNext]_mvars
\* Nodes keep processing what reaches them, and redis-trib goes on.
MFairness ==
  /\ WF_mvars(Trib) /\ WF_mvars(RestoreCommand) /\ WF_mvars(MigrateReply)
  /\ \A c \in Client : WF_mvars(Serve(c)) /\ WF_mvars(RedirectBlocked(c))

MFairSpec == MSpec /\ MFairness

----------------------------------------------------------------------------
(* Properties *)

\* A request that is served sees the value last written to its keys, wherever
\* the keys are and whatever the nodes believe: getNodeByQuery sends it
\* elsewhere when this node may not have them.  Left out are, on the target of a
\* MIGRATE whose connection failed, the keys whose RESTORE it has not seen
\* answered: the copy that is there, or still comes, is not deleted by a DEL at
\* the source, and an ASK then leads a client to the old value.
ServesTruth ==
  LET right(n, ks) == \A k \in ks : <<n, k>> \in stray \/ sn[n].keys[k] = truth[k]
  IN /\ \A n \in SNode, ks \in SUBSET Key \ {{}} :
          Responsive(n) /\ Route(n, ks, FALSE).code = "serve" => right(n, ks)
     /\ \A c \in Client : cl[c] # Nil /\ ~cl[c].blocked /\ Responsive(cl[c].at)
                          /\ Route(cl[c].at, cl[c].ks, cl[c].asking).code = "serve"
                          => right(cl[c].at, cl[c].ks)

\* No key is lost: its value is in a node, or on its way between two
\* (migrateCommand deletes it only behind the target's answer;
\* clusterUpdateSlotsConfigWith deletes only what nobody needs).  Left out are,
\* under redis-trib's fix option, the keys of a MIGRATE whose connection failed:
\* its RESTORE ... REPLACE, run late, overwrites what was written since.
NothingLost ==
  \A k \in Key : truth[k] # Nil /\ ~(mscen.fix /\ \E n \in SNode : <<n, k>> \in stray) =>
    \E n \in SNode : sn[n].keys[k] = truth[k]

\* redis-trib gave up half-way, or the slot was unassigned by hand.
Interrupted == (tr.moves = <<>> /\ tr.pc # 1) \/ mbud.slots < mscen.bud.slots

\* Every request is answered in the end: redirections between nodes do not go
\* round for ever once redis-trib has finished (getNodeByQuery,
\* clusterRedirectClient, the order of move_slot).
Answered == \A c \in Client : []<>(Interrupted \/ cl[c] = Nil \/ cl[c].blocked)

\* A client blocked on a key does not miss a value written to the key on the
\* other node: it is sent there when the slot has moved
\* (clusterRedirectBlockedClientIfNeeded).
BlockedFollow ==
  \A c \in Client : []<>(Interrupted \/ cl[c] = Nil \/ \A k \in cl[c].ks : truth[k] = Nil)
=============================================================================

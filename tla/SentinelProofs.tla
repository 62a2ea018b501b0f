--------------------------- MODULE SentinelProofs ---------------------------
(***************************************************************************)
(* Theorems about Sentinel for every finite set of Sentinels, any network  *)
(* (Connected), any bounds and any choice of the optional actions: votes,  *)
(* elections, and the order of the configuration rewrite and the SLAVEOFs. *)
(*                                                                         *)
(* The argument has three layers.  First, what each C function does to the *)
(* record of the master (lemmas Checked to Machine): it keeps its shape,   *)
(* and moves the vote only forward in epoch.  Second, VoteInv, which ties  *)
(* a Sentinel's vote to its file, to the answers under way and to what its *)
(* peers have recorded of it; one lemma per handler shows that it is kept. *)
(* Third, ElectedInv: every election is backed by a majority of ballots,   *)
(* so two winners of an epoch share a voter, who voted once.               *)
(***************************************************************************)
EXTENDS Sentinel, FiniteSetTheorems, TLAPS

\* The fields of the record of a Sentinel, and of one of its peers.
Fields ==
  {"epoch", "tilt", "addr", "config_epoch", "leader", "leader_epoch", "failover_epoch",
   "fstate", "flags", "role", "promoted", "slaves", "peers"}
PeerFields == {"down", "leader", "leader_epoch"}
\* The failover states in which the master is flagged FAILOVER_IN_PROGRESS, and
\* those in which a slave has been selected and the master still watched.
Running == {"wait_start", "select_slave", "send_slaveof_noone", "wait_promotion",
            "reconf_slaves", "update_config"}
Chosen == {"send_slaveof_noone", "wait_promotion", "reconf_slaves"}

\* Every known Sentinel has a record with its three fields.
PeersOK(S) ==
  \A p \in DOMAIN S.peers : DOMAIN S.peers[p] = PeerFields

\* The record has its shape, its epochs are numbers, a failover runs exactly when
\* the flag says so, and a promotion has its slave.
StateOK(S) ==
  /\ DOMAIN S = Fields
  /\ S.epoch \in Nat /\ S.leader_epoch \in Nat /\ S.failover_epoch \in Nat
  /\ PeersOK(S)
  /\ "IN_PROGRESS" \in S.flags <=> S.fstate \in Running
  /\ S.fstate \in Chosen => S.promoted # Nil

\* What a C function leaves alone on its way from record S to record T: the vote,
\* the epochs, the phase of the failover.
SameVote(S, T) == T.leader_epoch = S.leader_epoch /\ T.leader = S.leader
SameEpochs(S, T) == T.epoch = S.epoch /\ T.failover_epoch = S.failover_epoch
SamePhase(S, T) ==
  /\ T.fstate = S.fstate /\ T.promoted = S.promoted
  /\ ("IN_PROGRESS" \in T.flags) = ("IN_PROGRESS" \in S.flags)

\* The vote is kept, forgotten with its epoch kept, or replaced by one of a later
\* epoch.
VoteMoves(S, T) ==
  \/ T.leader_epoch = S.leader_epoch /\ (T.leader = S.leader \/ T.leader = Nil)
  \/ T.leader_epoch > S.leader_epoch

\* What T records of the other Sentinels' votes is what S recorded, or nothing.
PeersFrom(S, T) ==
  /\ DOMAIN T.peers = DOMAIN S.peers
  /\ \A p \in DOMAIN S.peers :
       \/ T.peers[p].leader = Nil
       \/ /\ T.peers[p].leader = S.peers[p].leader
          /\ T.peers[p].leader_epoch = S.peers[p].leader_epoch

\* The vote is kept or replaced by one of a later epoch.
MovesOn(S, T) == SameVote(S, T) \/ T.leader_epoch > S.leader_epoch

\* The two downness checks of sentinelHandleRedisInstance touch neither the vote nor
\* the failover.
LEMMA Checked ==
  ASSUME NEW S, StateOK(S), NEW down
  PROVE  LET T == CheckObjectivelyDown(CheckSubjectivelyDown([S EXCEPT !.tilt = FALSE], down))
         IN  StateOK(T) /\ SameVote(S, T) /\ SameEpochs(S, T) /\ SamePhase(S, T) /\ T.peers = S.peers
<1> DEFINE A == [S EXCEPT !.tilt = FALSE]
           B == CheckSubjectivelyDown(A, down)
           T == CheckObjectivelyDown(B)
<1>1. StateOK(A) /\ SameVote(S, A) /\ SameEpochs(S, A) /\ SamePhase(S, A) /\ A.peers = S.peers
  BY DEF StateOK, Fields, PeersOK, SameVote, SameEpochs, SamePhase
<1> HIDE DEF A
<1>2. StateOK(B) /\ SameVote(A, B) /\ SameEpochs(A, B) /\ SamePhase(A, B) /\ B.peers = A.peers
  <2>1. /\ DOMAIN B = Fields
        /\ SameVote(A, B) /\ SameEpochs(A, B) /\ B.peers = A.peers
        /\ B.fstate = A.fstate /\ B.promoted = A.promoted
        /\ B.flags = IF down THEN A.flags \cup {"S_DOWN"} ELSE A.flags \ {"S_DOWN"}
    BY <1>1 DEF StateOK, Fields, SameVote, SameEpochs, CheckSubjectivelyDown
  <2> HIDE DEF B
  <2>2. "IN_PROGRESS" \in B.flags <=> "IN_PROGRESS" \in A.flags
    BY <2>1
  <2> QED
    BY <1>1, <2>1, <2>2 DEF StateOK, PeersOK, SameVote, SameEpochs, SamePhase
<1> HIDE DEF B
<1>3. StateOK(T) /\ SameVote(B, T) /\ SameEpochs(B, T) /\ SamePhase(B, T) /\ T.peers = B.peers
  <2>1. /\ DOMAIN T = Fields
        /\ SameVote(B, T) /\ SameEpochs(B, T) /\ T.peers = B.peers
        /\ T.fstate = B.fstate /\ T.promoted = B.promoted
        /\ T.flags \in {B.flags \cup {"O_DOWN"}, B.flags \ {"O_DOWN"}}
    BY <1>2 DEF StateOK, Fields, SameVote, SameEpochs, CheckObjectivelyDown
  <2> HIDE DEF T
  <2>2. "IN_PROGRESS" \in T.flags <=> "IN_PROGRESS" \in B.flags
    BY <2>1
  <2> QED
    BY <1>2, <2>1, <2>2 DEF StateOK, PeersOK, SameVote, SameEpochs, SamePhase
<1> QED
  BY <1>1, <1>2, <1>3 DEF SameVote, SameEpochs, SamePhase, A, B

\* sentinelStartFailoverIfNeeded starts a failover or changes nothing, and does not
\* vote.
LEMMA Started ==
  ASSUME NEW S, StateOK(S), NEW late
  PROVE  LET T == StartFailoverIfNeeded(S, late)
         IN  /\ StateOK(T) /\ SameVote(S, T) /\ T.peers = S.peers
             /\ SamePhase(S, T) \/ T.fstate = "wait_start"
<1> DEFINE T == StartFailoverIfNeeded(S, late)
<1>1. CASE T = S
  BY <1>1 DEF SameVote, SamePhase
<1>2. CASE T # S
  <2>1. T = StartFailover(S)
    BY <1>2 DEF StartFailoverIfNeeded
  <2>2. /\ DOMAIN T = Fields
        /\ SameVote(S, T) /\ T.peers = S.peers /\ T.fstate = "wait_start"
        /\ T.epoch = S.epoch + 1 /\ T.failover_epoch = S.epoch + 1
        /\ "IN_PROGRESS" \in T.flags
    BY <2>1 DEF StateOK, Fields, SameVote, StartFailover
  <2> HIDE DEF T
  <2> QED
    BY <2>2 DEF StateOK, PeersOK, SameVote, Running, Chosen, T
<1> QED
  BY <1>1, <1>2

\* sentinelAbortFailover ends the failover and keeps the vote.
LEMMA Aborted ==
  ASSUME NEW S, StateOK(S)
  PROVE  LET T == AbortFailover(S)
         IN  StateOK(T) /\ SameVote(S, T) /\ SameEpochs(S, T) /\ T.peers = S.peers /\ T.fstate = "none"
BY DEF StateOK, Fields, PeersOK, SameVote, SameEpochs, AbortFailover, ClearFlag, Running, Chosen

\* sentinelVoteLeader keeps the vote or casts one in an epoch later than its last.
LEMMA Cast ==
  ASSUME NEW S, StateOK(S), NEW e \in Nat, NEW c
  PROVE  LET T == VoteLeader(S, e, c)
         IN  /\ StateOK(T) /\ T.peers = S.peers /\ SamePhase(S, T)
             /\ SameVote(S, T) \/ T.leader_epoch > S.leader_epoch
             /\ T.failover_epoch = S.failover_epoch /\ T.addr = S.addr
             /\ T.leader_epoch = S.leader_epoch => T.leader = S.leader
<1> DEFINE T == VoteLeader(S, e, c)
           m == IF e > S.epoch THEN e ELSE S.epoch
<1>1. /\ m \in Nat /\ m >= e
      /\ T \in {[S EXCEPT !.epoch = m, !.leader = c, !.leader_epoch = m], [S EXCEPT !.epoch = m]}
      /\ T = [S EXCEPT !.epoch = m] \/ S.leader_epoch < m
  BY DEF StateOK, VoteLeader
<1> HIDE DEF T, m
<1>2. /\ DOMAIN T = Fields /\ T.epoch = m
      /\ T.flags = S.flags /\ T.fstate = S.fstate /\ T.promoted = S.promoted
      /\ T.peers = S.peers /\ T.failover_epoch = S.failover_epoch /\ T.addr = S.addr
      /\ SameVote(S, T) \/ (T.leader_epoch = m /\ m > S.leader_epoch)
  BY ZenonT(60), <1>1 DEF StateOK, Fields, SameVote
<1>3. StateOK(T)
  BY <1>1, <1>2 DEF StateOK, PeersOK, SameVote
<1> QED
  BY <1>1, <1>2, <1>3 DEF StateOK, SameVote, SamePhase, T

\* sentinelAskMasterStateToOtherSentinels drops stale answers and records none.
LEMMA Forgotten ==
  ASSUME NEW S, StateOK(S), NEW stale
  PROVE  LET T == ForgetStale(S, stale)
         IN  /\ StateOK(T) /\ SameVote(S, T) /\ SameEpochs(S, T) /\ SamePhase(S, T)
             /\ PeersFrom(S, T)
<1> DEFINE T == ForgetStale(S, stale)
           F(p) == IF p \in stale THEN [S.peers[p] EXCEPT !.down = FALSE, !.leader = Nil]
                                  ELSE S.peers[p]
<1>1. /\ DOMAIN T = Fields
      /\ SameVote(S, T) /\ SameEpochs(S, T) /\ SamePhase(S, T) /\ T.flags = S.flags
      /\ T.peers = [p \in DOMAIN S.peers |-> F(p)]
  BY DEF StateOK, Fields, SameVote, SameEpochs, SamePhase, ForgetStale
<1>2. \A p \in DOMAIN S.peers :
        /\ DOMAIN F(p) = PeerFields
        /\ F(p).leader = Nil \/ (F(p).leader = S.peers[p].leader
                                 /\ F(p).leader_epoch = S.peers[p].leader_epoch)
  BY DEF StateOK, PeersOK, PeerFields
<1> HIDE DEF T, F
<1>3. PeersOK(T)
  BY <1>1, <1>2 DEF PeersOK
<1>4. StateOK(T)
  BY <1>1, <1>3 DEF StateOK, SameVote, SameEpochs, SamePhase
<1> QED
  BY <1>1, <1>2, <1>4 DEF PeersFrom, T

\* sentinelResetMaster forgets the candidate and the failover, never the epoch of the
\* last vote.
LEMMA Reset ==
  ASSUME NEW S, StateOK(S), NEW keep \in BOOLEAN
  PROVE  LET T == ResetMaster(S, keep)
         IN  /\ StateOK(T) /\ T.leader_epoch = S.leader_epoch /\ T.leader = Nil
             /\ T.fstate = "none" /\ SameEpochs(S, T)
             /\ T.peers = IF keep THEN S.peers ELSE << >>
<1> DEFINE T == ResetMaster(S, keep)
<1>1. /\ DOMAIN T = Fields /\ SameEpochs(S, T)
      /\ T.leader_epoch = S.leader_epoch /\ T.leader = Nil
      /\ T.fstate = "none" /\ T.flags = {}
      /\ T.peers = IF keep THEN S.peers ELSE << >>
  BY DEF StateOK, Fields, SameEpochs, ResetMaster
<1> HIDE DEF T
<1>2. PeersOK(T)
  BY <1>1 DEF StateOK, PeersOK
<1> QED
  BY <1>1, <1>2 DEF StateOK, SameEpochs, Running, Chosen, T

\* sentinelResetMasterAndChangeAddress does the same and keeps the other Sentinels.
LEMMA Switched ==
  ASSUME NEW S, StateOK(S), NEW new
  PROVE  LET T == ResetMasterAndChangeAddress(S, new)
         IN  /\ StateOK(T) /\ T.leader_epoch = S.leader_epoch /\ T.leader = Nil
             /\ T.fstate = "none" /\ SameEpochs(S, T) /\ T.peers = S.peers
<1> DEFINE R == ResetMaster(S, TRUE)
           T == ResetMasterAndChangeAddress(S, new)
<1>1. /\ StateOK(R) /\ R.leader_epoch = S.leader_epoch /\ R.leader = Nil
      /\ R.fstate = "none" /\ SameEpochs(S, R) /\ R.peers = S.peers
  BY ZenonT(60), Reset
<1>2. T = [R EXCEPT !.addr = new,
                    !.slaves = [i \in (DOMAIN S.slaves \cup {S.addr}) \ {new} |-> {}]]
  BY DEF ResetMasterAndChangeAddress
<1> HIDE DEF R, T
<1>3. /\ StateOK(T) /\ T.leader_epoch = R.leader_epoch /\ T.leader = R.leader
      /\ T.fstate = R.fstate /\ SameEpochs(R, T) /\ T.peers = R.peers
  BY <1>1, <1>2 DEF StateOK, Fields, PeersOK, SameEpochs
<1> QED
  BY <1>1, <1>3 DEF SameEpochs, T

\* sentinelFailoverSelectSlave selects a slave or aborts.
LEMMA Selected ==
  ASSUME NEW S, StateOK(S), "IN_PROGRESS" \in S.flags, NEW usable
  PROVE  LET T == FailoverSelectSlave(S, usable)
         IN  /\ StateOK(T) /\ SameVote(S, T) /\ T.peers = S.peers
             /\ T.fstate \in {"none", "send_slaveof_noone"}
<1> DEFINE T == FailoverSelectSlave(S, usable)
           i == SelectSlave(S, usable)
<1>1. CASE i = Nil
  BY <1>1, Aborted DEF FailoverSelectSlave
<1>2. CASE i # Nil
  <2>1. T = [S EXCEPT !.slaves[i] = @ \cup {"PROMOTED"}, !.promoted = i,
                      !.fstate = "send_slaveof_noone"]
    BY <1>2 DEF FailoverSelectSlave
  <2> HIDE DEF T, i
  <2>2. /\ DOMAIN T = Fields /\ SameVote(S, T) /\ SameEpochs(S, T) /\ T.peers = S.peers
        /\ T.fstate = "send_slaveof_noone" /\ T.promoted = i /\ T.flags = S.flags
    BY ZenonT(60), <2>1 DEF StateOK, Fields, SameVote, SameEpochs
  <2> QED
    BY <1>2, <2>2 DEF StateOK, PeersOK, SameVote, SameEpochs, Running, T
<1> QED
  BY <1>1, <1>2

\* sentinelFailoverWaitStart goes on to select a slave only when the count made this
\* Sentinel the leader or SENTINEL FAILOVER forced the failover.
LEMMA WaitedStart ==
  ASSUME NEW s, NEW S, StateOK(S), "IN_PROGRESS" \in S.flags, NEW late \in BOOLEAN,
         NEW T \in FailoverWaitStart(s, S, late)
  PROVE  /\ StateOK(T) /\ MovesOn(S, T) /\ T.peers = S.peers
         /\ T.fstate \in {"none", "select_slave", S.fstate}
         /\ T.fstate = "select_slave" /\ S.fstate # "select_slave" /\ "FORCE" \notin S.flags
            => \E o \in GetLeader(s, S, S.failover_epoch) :
                 o.winner = s /\ SameVote(o.st, T)
<1> DEFINE e == S.failover_epoch
<1>1. PICK o \in GetLeader(s, S, e) :
        T = IF o.winner = s \/ "FORCE" \in S.flags
            THEN [o.st EXCEPT !.fstate = "select_slave"]
            ELSE IF late THEN AbortFailover(o.st) ELSE o.st
  BY DEF FailoverWaitStart
<1>0. PICK w : o = LeaderOutcome(s, S, e, w)
  BY DEF GetLeader
<1>2. PICK c : o.st = VoteLeader(S, e, c)
  BY ZenonT(60), <1>0, o.st = VoteLeader(S, e, IF w = Nil THEN s ELSE w) DEF LeaderOutcome
<1> DEFINE V == VoteLeader(S, e, c)
<1>3. /\ StateOK(V) /\ V.peers = S.peers /\ SamePhase(S, V) /\ MovesOn(S, V)
      /\ V.fstate = S.fstate
  <2>1. e \in Nat
    BY DEF StateOK
  <2> QED
    BY <2>1, Cast DEF MovesOn, SamePhase
<1> HIDE DEF V
<1>4. CASE T = V
  BY ZenonT(60), <1>1, <1>2, <1>3, <1>4 DEF V
<1>5. CASE T = AbortFailover(V)
  BY <1>3, <1>5, Aborted DEF MovesOn, SameVote
<1>6. CASE T = [V EXCEPT !.fstate = "select_slave"] /\ (o.winner = s \/ "FORCE" \in S.flags)
  <2>1. /\ DOMAIN T = Fields /\ SameVote(V, T) /\ SameEpochs(V, T) /\ T.peers = V.peers
        /\ T.fstate = "select_slave" /\ T.flags = V.flags
    BY <1>3, <1>6 DEF StateOK, Fields, SameVote, SameEpochs
  <2>2. StateOK(T)
    BY <1>3, <2>1 DEF StateOK, PeersOK, SameVote, SameEpochs, Running, Chosen
  <2> QED
    BY <1>2, <1>3, <1>6, <2>1, <2>2 DEF MovesOn, SameVote, V
<1> QED
  BY <1>1, <1>2, <1>4, <1>5, <1>6 DEF V
\* sentinelFailoverReconfNextSlave and sentinelFailoverDetectEnd keep the promoted
\* slave and lead to update_config at most.
LEMMA Reconfigured ==
  ASSUME NEW S, StateOK(S), S.fstate = "reconf_slaves",
         NEW visited, NEW told, NEW expired, NEW late, NEW usable
  PROVE  LET T == FailoverDetectEnd(ReconfNextSlave(S, visited, told, expired), late, usable).st
         IN  /\ StateOK(T) /\ SameVote(S, T) /\ T.peers = S.peers /\ T.promoted = S.promoted
             /\ T.fstate \in {"reconf_slaves", "update_config"}
<1> DEFINE R == ReconfNextSlave(S, visited, told, expired)
           T == FailoverDetectEnd(R, late, usable).st
<1>1. /\ DOMAIN R = Fields /\ SameVote(S, R) /\ SameEpochs(S, R) /\ R.peers = S.peers
      /\ R.promoted = S.promoted /\ R.fstate = "reconf_slaves" /\ R.flags = S.flags
  BY DEF StateOK, Fields, SameVote, SameEpochs, ReconfNextSlave
<1> HIDE DEF R
<1>2. \/ T = R
      \/ \E f \in {"reconf_slaves", "update_config"} : \E g :
           T = [R EXCEPT !.fstate = f, !.slaves = g]
  BY ZenonT(60), <1>1 DEF FailoverDetectEnd, Fields
<1> HIDE DEF T
<1>3. /\ DOMAIN T = Fields /\ SameVote(S, T) /\ SameEpochs(S, T) /\ T.peers = S.peers
      /\ T.promoted = S.promoted /\ T.fstate \in {"reconf_slaves", "update_config"}
      /\ T.flags = S.flags
  BY ZenonT(60), <1>1, <1>2 DEF Fields, SameVote, SameEpochs
<1>4. StateOK(T)
  BY <1>3 DEF StateOK, PeersOK, SameVote, SameEpochs, Running, Chosen
<1> QED
  BY <1>3, <1>4 DEF T, R

\* One pass of sentinelFailoverStateMachine: only a pass that begins in
\* reconf_slaves ends in reconf_slaves or update_config, and an election that was not
\* forced was won in the count.
LEMMA Machine ==
  ASSUME NEW s, NEW S, StateOK(S), S.fstate # "update_config", NEW late \in BOOLEAN,
         NEW usable, NEW expired,
         NEW r \in FailoverStateMachine(s, S, late, usable, expired)
  PROVE  /\ StateOK(r.st) /\ MovesOn(S, r.st) /\ r.st.peers = S.peers
         /\ r.st.fstate \in {"reconf_slaves", "update_config"}
            => S.fstate = "reconf_slaves" /\ r.st.promoted = S.promoted
         /\ S.fstate = "wait_start" /\ r.st.fstate = "select_slave" /\ "FORCE" \notin S.flags
            => \E o \in GetLeader(s, S, S.failover_epoch) :
                 o.winner = s /\ SameVote(o.st, r.st)
<1> DEFINE Quiet(T) == [st |-> T, tell |-> {}, of |-> NoOne]
<1>1. CASE "IN_PROGRESS" \notin S.flags
  <2>1. r = Quiet(S)
    BY <1>1, S.fstate \notin Running DEF FailoverStateMachine, StateOK, Running
  <2> QED
    BY <2>1 DEF MovesOn, SameVote
<1>2. CASE "IN_PROGRESS" \in S.flags
  <2>0. S.fstate \in Running \ {"update_config"}
    BY <1>2 DEF StateOK
  <2>1. CASE S.fstate = "wait_start"
    <3>1. PICK T \in FailoverWaitStart(s, S, late) : r = Quiet(T)
      BY <1>2, <2>1 DEF FailoverStateMachine
    <3>2. r.st = T
      BY <3>1
    <3> HIDE DEF Quiet
    <3>3. /\ StateOK(T) /\ MovesOn(S, T) /\ T.peers = S.peers
          /\ T.fstate \in {"none", "select_slave", S.fstate}
          /\ T.fstate = "select_slave" /\ S.fstate # "select_slave" /\ "FORCE" \notin S.flags
             => \E o \in GetLeader(s, S, S.failover_epoch) :
                  o.winner = s /\ SameVote(o.st, T)
      BY <1>2, WaitedStart
    <3> QED
      BY <2>1, <3>2, <3>3
  <2>2. CASE S.fstate = "select_slave"
    <3>1. r = Quiet(FailoverSelectSlave(S, usable))
      BY <1>2, <2>2 DEF FailoverStateMachine
    <3>2. r.st = FailoverSelectSlave(S, usable)
      BY <3>1
    <3> QED
      BY <1>2, <2>2, <3>2, Selected DEF MovesOn
  <2>3. CASE S.fstate \in {"send_slaveof_noone", "wait_promotion"}
    <3>1. r.st \in {S, AbortFailover(S), [S EXCEPT !.fstate = "wait_promotion"]}
      BY <1>2, <2>3 DEF FailoverStateMachine
    <3>2. CASE r.st = [S EXCEPT !.fstate = "wait_promotion"]
      <4>1. /\ DOMAIN r.st = Fields /\ SameVote(S, r.st) /\ SameEpochs(S, r.st)
            /\ r.st.peers = S.peers /\ r.st.promoted = S.promoted /\ r.st.flags = S.flags
            /\ r.st.fstate = "wait_promotion"
        BY ZenonT(60), <3>2 DEF StateOK, Fields, SameVote, SameEpochs
      <4> QED
        BY <1>2, <2>3, <4>1
           DEF StateOK, PeersOK, MovesOn, SameVote, SameEpochs, Running, Chosen
    <3> QED
      BY <2>3, <3>1, <3>2, Aborted DEF MovesOn, SameVote
  <2>4. CASE S.fstate = "reconf_slaves"
    <3>1. PICK V \in Visits(S, usable, expired) :
            r.st = FailoverDetectEnd(
                     ReconfNextSlave(S, V, Tellable(S, usable, expired) \cap V, expired),
                     late, usable).st
      BY SMTT(60), <1>2, <2>4 DEF FailoverStateMachine
    <3> QED
      BY <2>4, <3>1, Reconfigured DEF MovesOn
  <2> QED
    BY ZenonT(60), <2>0, <2>1, <2>2, <2>3, <2>4 DEF Running
<1> QED
  BY <1>1, <1>2

\* Without SENTINEL RESET a Sentinel never forgets another one.
KnownPeers(s, P) ==
  P \subseteq Sentinel \ {s} /\ ("reset" \notin Ops => P = Sentinel \ {s})

\* What the file d of Sentinel s keeps of its record S: the epoch of the last vote,
\* and the promoted slave as master from reconf_slaves on.  Between two handlers no
\* Sentinel is in update_config.
Kept(s, S, d) ==
  /\ StateOK(S) /\ S.fstate # "update_config"
  /\ d.epoch \in Nat /\ d.leader_epoch = S.leader_epoch
  /\ S.fstate = "reconf_slaves" => d.addr = S.promoted
  /\ KnownPeers(s, DOMAIN S.peers) /\ KnownPeers(s, d.peers)

\* An answer r of Sentinel p that names a candidate is one of the ballots B.
Heard(B, p, r) == r.leader # Nil => <<p, r.leader_epoch, r.leader>> \in B

\* Requests under way carry an epoch, and answers under way a vote that was cast.
LinkInv ==
  /\ DOMAIN link = Sentinel
  /\ \A s \in Sentinel : DOMAIN link[s] = Sentinel
  /\ \A s, p \in Sentinel : link[s][p].kind = "req" => link[s][p].epoch \in Nat
  /\ \A s, p \in Sentinel : link[s][p].kind = "rep" => Heard(ballots, p, link[s][p])

\* The vote in memory is a ballot, and no ballot is of a later epoch than the last
\* vote of its voter.
BallotInv ==
  /\ \A s \in Sentinel : st[s].leader # Nil => <<s, st[s].leader_epoch, st[s].leader>> \in ballots
  /\ \A v \in ballots : v[1] \in Sentinel /\ v[2] \in Nat /\ v[2] <= st[v[1]].leader_epoch
  /\ OneVotePerEpoch

\* The inductive invariant of the votes.  OneVotePerEpoch alone is not inductive: a
\* restart forgets the candidate, so that what stops a second vote is the epoch in the
\* file; and a count trusts what the peers' records say.
VoteInv ==
  /\ DOMAIN st = Sentinel /\ DOMAIN disk = Sentinel
  /\ \A s \in Sentinel : Kept(s, st[s], disk[s])
  /\ \A s \in Sentinel : \A p \in DOMAIN st[s].peers : Heard(ballots, p, st[s].peers[p])
  /\ LinkInv
  /\ BallotInv

\* sentinelFlushConfig saves what Kept asks for.
LEMMA Rewritten ==
  ASSUME NEW s, NEW S, StateOK(S), S.fstate # "update_config", KnownPeers(s, DOMAIN S.peers)
  PROVE  Kept(s, S, RewriteConfig(S))
BY DEF Kept, StateOK, RewriteConfig, GetCurrentMasterAddress, Running, Chosen

\* A Sentinel started on its file has the epoch of its last vote and no candidate.
LEMMA Loaded ==
  ASSUME NEW d, d.epoch \in Nat, d.leader_epoch \in Nat
  PROVE  LET T == LoadConfig(d)
         IN  /\ StateOK(T) /\ T.leader = Nil /\ T.leader_epoch = d.leader_epoch
             /\ T.fstate = "none" /\ DOMAIN T.peers = d.peers
             /\ \A p \in DOMAIN T.peers : T.peers[p].leader = Nil
<1> DEFINE T == LoadConfig(d)
<1>1. /\ DOMAIN T = Fields /\ T.leader = Nil /\ T.leader_epoch = d.leader_epoch
      /\ T.epoch = d.epoch /\ T.failover_epoch = 0 /\ T.flags = {}
      /\ T.fstate = "none" /\ T.peers = [p \in d.peers |-> NewPeer]
  BY DEF LoadConfig, Fields
<1> HIDE DEF T
<1>2. DOMAIN NewPeer = PeerFields /\ NewPeer.leader = Nil
  BY DEF NewPeer, PeerFields
<1> QED
  BY SMTT(60), <1>1, <1>2 DEF StateOK, PeersOK, Running, Chosen, T

\* A handler of s keeps VoteInv when it moves the vote only forward, saves the epoch,
\* counts its new vote as a ballot, and records only votes that were cast.
LEMMA Moved ==
  ASSUME VoteInv, NEW s \in Sentinel, NEW T,
         st' = [st EXCEPT ![s] = T],
         DOMAIN disk' = Sentinel, \A x \in Sentinel \ {s} : disk'[x] = disk[x],
         Kept(s, T, disk'[s]), VoteMoves(st[s], T), LinkInv',
         ballots' = ballots \cup Voted(s, st[s], T),
         \A p \in DOMAIN T.peers : Heard(ballots', p, T.peers[p])
  PROVE  VoteInv'
<1>1. /\ DOMAIN st' = Sentinel /\ st'[s] = T
      /\ \A x \in Sentinel \ {s} : st'[x] = st[x]
  BY DEF VoteInv
<1>2. \A x \in Sentinel : Kept(x, st'[x], disk'[x])
  BY ZenonT(60), <1>1 DEF VoteInv
<1>3. /\ st[s].leader_epoch \in Nat /\ T.leader_epoch \in Nat
      /\ T.leader_epoch >= st[s].leader_epoch
  BY DEF VoteInv, Kept, StateOK, VoteMoves
<1>4. \/ /\ ballots' = ballots
         /\ T.leader = Nil \/ SameVote(st[s], T)
      \/ /\ ballots' = ballots \cup {<<s, T.leader_epoch, T.leader>>}
         /\ T.leader_epoch > st[s].leader_epoch
  BY <1>3 DEF Voted, VoteMoves, SameVote
<1>5. \A x \in Sentinel :
        st'[x].leader # Nil => <<x, st'[x].leader_epoch, st'[x].leader>> \in ballots'
  BY ZenonT(60), <1>1, <1>4 DEF VoteInv, BallotInv, SameVote
<1>6. \A v \in ballots' : v[1] \in Sentinel /\ v[2] \in Nat /\ v[2] <= st'[v[1]].leader_epoch
  <2> SUFFICES ASSUME NEW v \in ballots'
               PROVE  v[1] \in Sentinel /\ v[2] \in Nat /\ v[2] <= st'[v[1]].leader_epoch
    BY ZenonT(60)
  <2>1. CASE v \in ballots
    BY SMTT(60), <1>1, <1>3, <2>1 DEF VoteInv, BallotInv
  <2>2. CASE v = <<s, T.leader_epoch, T.leader>>
    BY SMTT(60), <1>1, <1>3, <2>2
  <2> QED
    BY ZenonT(60), <1>4, <2>1, <2>2
<1>7. OneVotePerEpoch'
  <2> SUFFICES ASSUME NEW u \in ballots', NEW v \in ballots', u[1] = v[1], u[2] = v[2]
               PROVE  u[3] = v[3]
    BY DEF OneVotePerEpoch
  <2>1. CASE u \in ballots /\ v \in ballots
    BY <2>1 DEF VoteInv, BallotInv, OneVotePerEpoch
  <2>2. \A w \in ballots : T.leader_epoch > st[s].leader_epoch
                           => ~(w[1] = s /\ w[2] = T.leader_epoch)
    BY SMTT(60), <1>3 DEF VoteInv, BallotInv
  <2> QED
    BY SMTT(60), <1>4, <2>1, <2>2
<1>8. \A x \in Sentinel : \A p \in DOMAIN st'[x].peers : Heard(ballots', p, st'[x].peers[p])
  BY <1>1, <1>4 DEF VoteInv, Heard
<1> QED
  BY ZenonT(60), <1>1, <1>2, <1>5, <1>6, <1>7, <1>8 DEF VoteInv, BallotInv

\* What sentinelHandleRedisInstance amounts to for the votes: S is the record when
\* the state machine runs, T the record at the end.
TimerOutcome(s, S, T) ==
  /\ StateOK(S) /\ SameVote(st[s], S) /\ PeersFrom(st[s], S)
  /\ VoteMoves(S, T) /\ PeersFrom(S, T)
  /\ st' = [st EXCEPT ![s] = T]
  /\ disk' = disk \/ disk' = [disk EXCEPT ![s] = RewriteConfig(T)]
  /\ Kept(s, T, disk'[s])
  /\ ballots' = ballots \cup Voted(s, S, T)
  /\ \/ elected' = elected
     \/ /\ elected' = elected \cup {[who |-> s, failover_epoch |-> S.failover_epoch,
                                     vote_epoch |-> S.epoch]}
        /\ \E o \in GetLeader(s, S, S.failover_epoch) :
             o.winner = s /\ SameVote(o.st, T)
  /\ DOMAIN link' = Sentinel
  /\ \A x \in Sentinel : DOMAIN link'[x] = Sentinel
  /\ \A x, p \in Sentinel :
       \/ link'[x][p] = link[x][p]
       \/ link'[x][p].kind = "req" /\ link'[x][p].epoch \in Nat

\* Every run of sentinelHandleRedisInstance on the master has such an outcome.
LEMMA TimerStep ==
  ASSUME VoteInv, NEW s \in Sentinel, NEW late \in BOOLEAN, HandleMaster(s, late)
  PROVE  \E S, T : TimerOutcome(s, S, T)
<1>0. /\ StateOK(st[s]) /\ st[s].fstate # "update_config" /\ DOMAIN st = Sentinel
      /\ Kept(s, st[s], disk[s]) /\ DOMAIN disk = Sentinel
  BY DEF VoteInv, Kept
<1> DEFINE Checks(d) == CheckObjectivelyDown(CheckSubjectivelyDown([st[s] EXCEPT !.tilt = FALSE], d))
           Starts(d) == StartFailoverIfNeeded(Checks(d), late)
           New(d) == Starts(d).epoch # Checks(d).epoch
           Before(d, stale) == IF New(d) THEN ForgetStale(Starts(d), stale) ELSE Starts(d)
<1>a. PICK d \in IF "recovery" \in Ops THEN BOOLEAN ELSE {TRUE} :
        \E stale \in Stale(Starts(d)), usable \in Usable(s, Starts(d)), expired \in Expired(Starts(d)) :
          \E r \in FailoverStateMachine(s, Before(d, stale), late /\ ~New(d), usable, expired) :
            FinishTimer(s, Before(d, stale), r, stale)
  BY Zenon DEF HandleMaster
<1>1. PICK stale, usable, expired :
        \E r \in FailoverStateMachine(s, Before(d, stale), late /\ ~New(d), usable, expired) :
          FinishTimer(s, Before(d, stale), r, stale)
  <2> HIDE DEF Before, New, Starts
  <2> QED BY <1>a, Zenon
<1> DEFINE S1 == Checks(d)
           S2 == Starts(d)
           S3 == Before(d, stale)
           quiet == late /\ ~New(d)
<1>2. PICK r \in FailoverStateMachine(s, S3, quiet, usable, expired) : FinishTimer(s, S3, r, stale)
  BY <1>1
<1>3. StateOK(S1) /\ SameVote(st[s], S1) /\ SamePhase(st[s], S1) /\ S1.peers = st[s].peers
  BY ZenonT(60), <1>0, Checked
<1> HIDE DEF Checks
<1>4. /\ StateOK(S2) /\ SameVote(S1, S2) /\ S2.peers = S1.peers
      /\ SamePhase(S1, S2) \/ S2.fstate = "wait_start"
  BY ZenonT(60), <1>3, Started
<1>5. quiet \in BOOLEAN
  BY ZenonT(60)
<1> HIDE DEF Starts
<1>6. StateOK(S3) /\ SameVote(S2, S3) /\ SamePhase(S2, S3) /\ PeersFrom(S2, S3)
  <2>1. CASE New(d)
    <3>1. S3 = ForgetStale(S2, stale)
      BY ZenonT(60), <2>1
    <3> QED
      BY <1>4, <3>1, Forgotten
  <2>2. CASE ~New(d)
    <3>1. S3 = S2
      BY ZenonT(60), <2>2
    <3> QED
      BY <1>4, <3>1 DEF SameVote, SamePhase, PeersFrom
  <2> QED
    BY <2>1, <2>2
<1> HIDE DEF Before, New, quiet
<1>7. /\ SameVote(st[s], S3) /\ PeersFrom(st[s], S3) /\ S3.fstate # "update_config"
      /\ S3.fstate = "reconf_slaves" => st[s].fstate = "reconf_slaves" /\ S3.promoted = st[s].promoted
  <2>1. PeersFrom(st[s], S3)
    BY SMTT(60), <1>3, <1>4, <1>6 DEF PeersFrom
  <2>2. SameVote(st[s], S3)
    BY ZenonT(60), <1>3, <1>4, <1>6 DEF SameVote
  <2> QED
    BY ZenonT(60), <1>0, <1>3, <1>4, <1>6, <2>1, <2>2 DEF SamePhase
<1> HIDE DEF S1, S2, S3
<1>8. /\ StateOK(r.st) /\ MovesOn(S3, r.st) /\ r.st.peers = S3.peers
      /\ r.st.fstate \in {"reconf_slaves", "update_config"}
         => S3.fstate = "reconf_slaves" /\ r.st.promoted = S3.promoted
      /\ S3.fstate = "wait_start" /\ r.st.fstate = "select_slave" /\ "FORCE" \notin S3.flags
         => \E o \in GetLeader(s, S3, S3.failover_epoch) :
              o.winner = s /\ SameVote(o.st, r.st)
  BY SMTT(60), <1>5, <1>6, <1>7, Machine
<1> DEFINE T == ForgetStale(r.st, stale)
           end == T.fstate = "update_config"
           U == IF end THEN SwitchToPromotedSlave(T) ELSE T
<1>9. PICK asked :
        /\ st' = [st EXCEPT ![s] = U]
        /\ Ask(s, T, asked)
        /\ IF end \/ U.leader_epoch # S3.leader_epoch THEN Flush(s, U) ELSE UNCHANGED disk
        /\ ballots' = ballots \cup Voted(s, S3, U)
        /\ elected' = IF (S3.fstate = "wait_start" /\ T.fstate = "select_slave")
                         /\ "FORCE" \notin S3.flags
                      THEN elected \cup {[who |-> s, failover_epoch |-> S3.failover_epoch,
                                          vote_epoch |-> S3.epoch]}
                      ELSE elected
  BY ZenonT(60), <1>2 DEF FinishTimer
<1>10. StateOK(T) /\ SameVote(r.st, T) /\ SamePhase(r.st, T) /\ PeersFrom(r.st, T)
  BY ZenonT(60), <1>8, Forgotten
<1> HIDE DEF T
<1>11. /\ StateOK(U) /\ U.leader_epoch = T.leader_epoch /\ U.leader \in {T.leader, Nil}
       /\ U.peers = T.peers /\ U.fstate # "update_config"
       /\ U # T => U.fstate = "none" /\ end
  BY SMTT(60), <1>10, Switched DEF SwitchToPromotedSlave
<1>12. /\ VoteMoves(S3, U) /\ PeersFrom(S3, U)
       /\ U.fstate = "reconf_slaves" => st[s].fstate = "reconf_slaves" /\ U.promoted = st[s].promoted
  <2>1. PeersFrom(S3, U)
    BY ZenonT(60), <1>8, <1>10, <1>11 DEF PeersFrom
  <2>2. VoteMoves(S3, U)
    BY ZenonT(60), <1>8, <1>10, <1>11 DEF VoteMoves, MovesOn, SameVote
  <2>3. U.fstate = "reconf_slaves" => U = T /\ r.st.fstate = "reconf_slaves" /\ U.promoted = r.st.promoted
    BY ZenonT(60), <1>10, <1>11 DEF SamePhase
  <2> QED
    BY ZenonT(60), <1>7, <1>8, <2>1, <2>2, <2>3
<1> HIDE DEF U
<1>13. /\ disk' = disk \/ disk' = [disk EXCEPT ![s] = RewriteConfig(U)]
       /\ Kept(s, U, disk'[s])
  <2>1. CASE disk' = disk /\ U.leader_epoch = S3.leader_epoch
    BY ZenonT(60), <1>0, <1>7, <1>11, <1>12, <2>1 DEF Kept, SameVote, PeersFrom
  <2>2. CASE disk' = [disk EXCEPT ![s] = RewriteConfig(U)]
    <3>1. KnownPeers(s, DOMAIN U.peers)
      BY ZenonT(60), <1>0, <1>7, <1>12 DEF Kept, PeersFrom
    <3> QED
      BY ZenonT(60), <1>0, <1>11, <2>2, <3>1, Rewritten
  <2> QED
    BY ZenonT(60), <1>9, <2>1, <2>2 DEF Flush
<1>14. \/ elected' = elected
       \/ /\ elected' = elected \cup {[who |-> s, failover_epoch |-> S3.failover_epoch,
                                       vote_epoch |-> S3.epoch]}
          /\ \E o \in GetLeader(s, S3, S3.failover_epoch) : o.winner = s /\ SameVote(o.st, U)
  <2>1. CASE S3.fstate = "wait_start" /\ T.fstate = "select_slave" /\ "FORCE" \notin S3.flags
    <3>1. U = T /\ r.st.fstate = "select_slave"
      BY ZenonT(60), <1>10, <1>11, <2>1 DEF SamePhase
    <3>2. PICK o \in GetLeader(s, S3, S3.failover_epoch) : o.winner = s /\ SameVote(o.st, r.st)
      BY ZenonT(60), <1>8, <2>1, <3>1
    <3>3. SameVote(o.st, U)
      BY ZenonT(60), <1>10, <3>1, <3>2 DEF SameVote
    <3> QED
      BY ZenonT(60), <1>9, <2>1, <3>2, <3>3
  <2> QED
    BY ZenonT(60), <1>9, <2>1
<1>15. /\ DOMAIN link' = Sentinel
       /\ \A x \in Sentinel : DOMAIN link'[x] = Sentinel
       /\ \A x, p \in Sentinel :
            \/ link'[x][p] = link[x][p]
            \/ link'[x][p].kind = "req" /\ link'[x][p].epoch \in Nat
  <2>1. DOMAIN link = Sentinel /\ \A x \in Sentinel : DOMAIN link[x] = Sentinel
    BY ZenonT(60) DEF VoteInv, LinkInv
  <2>2. T.epoch \in Nat
    BY ZenonT(60), <1>10 DEF StateOK
  <2> DEFINE q == [kind |-> "req", addr |-> T.addr, epoch |-> T.epoch,
                   runid |-> IF T.fstate # "none" THEN s ELSE Nil]
  <2>3. link' = [link EXCEPT ![s] = [p \in Sentinel |->
                   IF p \in asked /\ link[s][p] = Idle THEN q ELSE link[s][p]]]
    BY ZenonT(60), <1>9, <2>1 DEF Ask
  <2>4. q.kind = "req" /\ q.epoch \in Nat
    BY <2>2
  <2> HIDE DEF q
  <2> QED
    BY ZenonT(60), <2>1, <2>3, <2>4
<1>16. TimerOutcome(s, S3, U)
  BY ZenonT(60), <1>6, <1>7, <1>9, <1>12, <1>13, <1>14, <1>15 DEF TimerOutcome
<1> QED
  BY ZenonT(60), <1>16

\* A handler that neither votes nor hears of a vote keeps VoteInv, provided it
\* rewrites the file whenever the promoted slave changes.
LEMMA QuietMove ==
  ASSUME VoteInv, NEW s \in Sentinel, NEW T,
         st' = [st EXCEPT ![s] = T],
         StateOK(T), T.fstate # "update_config", T.leader_epoch = st[s].leader_epoch,
         T.peers = st[s].peers,
         T.leader = st[s].leader \/ T.leader = Nil,
         \/ disk' = [disk EXCEPT ![s] = RewriteConfig(T)]
         \/ /\ disk' = disk
            /\ T.fstate = "reconf_slaves" => st[s].fstate = "reconf_slaves" /\ T.promoted = st[s].promoted,
         UNCHANGED <<link, ballots>>
  PROVE  VoteInv'
<1>1. DOMAIN disk = Sentinel /\ Kept(s, st[s], disk[s])
  BY DEF VoteInv
<1>2. /\ DOMAIN disk' = Sentinel /\ \A x \in Sentinel \ {s} : disk'[x] = disk[x]
      /\ Kept(s, T, disk'[s])
  <2>1. CASE disk' = [disk EXCEPT ![s] = RewriteConfig(T)]
    BY ZenonT(60), <1>1, <2>1, Rewritten DEF Kept
  <2>2. CASE /\ disk' = disk
             /\ T.fstate = "reconf_slaves"
                => st[s].fstate = "reconf_slaves" /\ T.promoted = st[s].promoted
    BY ZenonT(60), <1>1, <2>2 DEF Kept
  <2> QED
    BY ZenonT(60), <2>1, <2>2
<1>3. VoteMoves(st[s], T) /\ Voted(s, st[s], T) = {}
  BY ZenonT(60) DEF VoteMoves, Voted
<1>4. LinkInv'
  BY ZenonT(60) DEF VoteInv, LinkInv, Heard
<1>5. \A p \in DOMAIN T.peers : Heard(ballots', p, T.peers[p])
  BY DEF VoteInv, Heard
<1> QED
  BY ZenonT(60), <1>2, <1>3, <1>4, <1>5, Moved

\* sentinelHandleRedisInstance on the master keeps VoteInv.
LEMMA VotesHandleMaster ==
  ASSUME VoteInv, NEW s \in Sentinel, NEW late \in BOOLEAN, HandleMaster(s, late)
  PROVE  VoteInv'
<1>0. PICK S, T : TimerOutcome(s, S, T)
  BY ZenonT(60), TimerStep
<1>1. /\ StateOK(S) /\ SameVote(st[s], S) /\ PeersFrom(st[s], S)
      /\ VoteMoves(S, T) /\ PeersFrom(S, T)
      /\ st' = [st EXCEPT ![s] = T]
      /\ disk' = disk \/ disk' = [disk EXCEPT ![s] = RewriteConfig(T)]
      /\ Kept(s, T, disk'[s])
      /\ ballots' = ballots \cup Voted(s, S, T)
      /\ DOMAIN link' = Sentinel
      /\ \A x \in Sentinel : DOMAIN link'[x] = Sentinel
      /\ \A x, p \in Sentinel :
           \/ link'[x][p] = link[x][p]
           \/ link'[x][p].kind = "req" /\ link'[x][p].epoch \in Nat
  BY ZenonT(60), <1>0 DEF TimerOutcome
<1>2. DOMAIN disk' = Sentinel /\ \A x \in Sentinel \ {s} : disk'[x] = disk[x]
  BY ZenonT(60), <1>1 DEF VoteInv
<1>3. VoteMoves(st[s], T) /\ Voted(s, S, T) = Voted(s, st[s], T)
  BY ZenonT(60), <1>1 DEF VoteMoves, SameVote, Voted
<1>4. LinkInv'
  BY <1>1 DEF VoteInv, LinkInv, Heard
<1>5. \A p \in DOMAIN T.peers : Heard(ballots', p, T.peers[p])
  <2>1. PeersFrom(st[s], T)
    BY <1>1 DEF PeersFrom
  <2>2. \A p \in DOMAIN st[s].peers : Heard(ballots, p, st[s].peers[p])
    BY DEF VoteInv
  <2> QED
    BY ZenonT(60), <1>1, <2>1, <2>2 DEF PeersFrom, Heard
<1> QED
  BY ZenonT(60), <1>1, <1>2, <1>3, <1>4, <1>5, Moved

\* sentinelHandleRedisInstance on a slave keeps VoteInv.
LEMMA VotesHandleSlave ==
  ASSUME VoteInv, NEW s \in Sentinel, NEW i, HandleSlave(s, i)
  PROVE  VoteInv'
<1>1. PICK f : st' = [st EXCEPT ![s].slaves[i] = (@ \ {"S_DOWN"}) \cup f]
  BY ZenonT(60) DEF HandleSlave
<1>2. DOMAIN st = Sentinel /\ StateOK(st[s]) /\ st[s].fstate # "update_config"
  BY DEF VoteInv, Kept
<1> DEFINE T == [st[s] EXCEPT !.slaves[i] = (@ \ {"S_DOWN"}) \cup f]
<1>3. st' = [st EXCEPT ![s] = T]
  BY <1>1, <1>2
<1>4. /\ DOMAIN T = Fields /\ SameVote(st[s], T) /\ SameEpochs(st[s], T) /\ T.peers = st[s].peers
      /\ T.flags = st[s].flags /\ T.fstate = st[s].fstate /\ T.promoted = st[s].promoted
  BY ZenonT(60), <1>2 DEF StateOK, Fields, SameVote, SameEpochs
<1> HIDE DEF T
<1>5. StateOK(T)
  BY <1>2, <1>4 DEF StateOK, PeersOK, SameVote, SameEpochs
<1> QED
  BY ZenonT(60), <1>2, <1>3, <1>4, <1>5, QuietMove DEF HandleSlave, SameVote

\* sentinelRefreshInstanceInfo on the master's INFO keeps VoteInv.
LEMMA VotesInfoFromMaster ==
  ASSUME VoteInv, NEW s \in Sentinel, InfoFromMaster(s)
  PROVE  VoteInv'
<1>2. DOMAIN st = Sentinel /\ StateOK(st[s]) /\ st[s].fstate # "update_config"
  BY DEF VoteInv, Kept
<1>1. PICK role, slaves :
        /\ st' = [st EXCEPT ![s] = [st[s] EXCEPT !.role = role, !.slaves = slaves]]
        /\ \/ disk' = disk
           \/ disk' = [disk EXCEPT ![s] = RewriteConfig([st[s] EXCEPT !.role = role, !.slaves = slaves])]
        /\ UNCHANGED <<link, ballots>>
  <2> DEFINE S == st[s]
             found == {j \in Inst \ {S.addr} : real[j] = S.addr} \ DOMAIN S.slaves
             role == IF real[S.addr] = NoOne THEN "master" ELSE "slave"
             slaves == [j \in DOMAIN S.slaves \cup found |-> IF j \in found THEN {} ELSE S.slaves[j]]
             T == [S EXCEPT !.role = IF real[S.addr] = NoOne THEN "master" ELSE "slave",
                     !.slaves = [j \in DOMAIN @ \cup found |->
                                   IF j \in found THEN {} ELSE @[j]]]
  <2>1. T = [S EXCEPT !.role = role, !.slaves = slaves]
    BY <1>2 DEF StateOK, Fields
  <2>2. /\ st' = [st EXCEPT ![s] = T]
        /\ disk' = disk \/ disk' = [disk EXCEPT ![s] = RewriteConfig(T)]
        /\ UNCHANGED <<link, ballots>>
    BY DEF InfoFromMaster, Flush
  <2> HIDE DEF T, role, slaves
  <2> QED
    BY ZenonT(60), <2>1, <2>2
<1> DEFINE T == [st[s] EXCEPT !.role = role, !.slaves = slaves]
<1>4. /\ DOMAIN T = Fields /\ SameVote(st[s], T) /\ SameEpochs(st[s], T) /\ T.peers = st[s].peers
      /\ T.flags = st[s].flags /\ T.fstate = st[s].fstate /\ T.promoted = st[s].promoted
  BY ZenonT(60), <1>2 DEF StateOK, Fields, SameVote, SameEpochs
<1> HIDE DEF T
<1>5. StateOK(T)
  BY <1>2, <1>4 DEF StateOK, PeersOK, SameVote, SameEpochs
<1>6. st' = [st EXCEPT ![s] = T] /\ (disk' = disk \/ disk' = [disk EXCEPT ![s] = RewriteConfig(T)])
  BY <1>1 DEF T
<1> QED
  BY ZenonT(60), <1>1, <1>2, <1>4, <1>5, <1>6, QuietMove DEF SameVote

\* sentinelRefreshInstanceInfo on a slave's INFO keeps VoteInv: the promotion it
\* notices is flushed to the file in the same call.
LEMMA VotesInfoFromSlave ==
  ASSUME VoteInv, NEW s \in Sentinel, NEW i, NEW settled, NEW linkup,
         InfoFromSlave(s, i, settled, linkup)
  PROVE  VoteInv'
<1>1. DOMAIN st = Sentinel /\ StateOK(st[s]) /\ st[s].fstate # "update_config"
  BY DEF VoteInv, Kept
<1>2. PICK T :
        /\ st' = [st EXCEPT ![s] = T]
        /\ IF T.fstate # st[s].fstate THEN Flush(s, T) ELSE UNCHANGED disk
        /\ UNCHANGED <<link, ballots>>
        /\ \/ /\ st[s].fstate = "wait_promotion"
              /\ T = [st[s] EXCEPT !.config_epoch = st[s].failover_epoch, !.fstate = "reconf_slaves"]
           \/ T = [st[s] EXCEPT !.slaves[i] = ReconfProgress(st[s], i, linkup)]
           \/ T = st[s]
  BY ZenonT(60) DEF InfoFromSlave
<1>3. /\ DOMAIN T = Fields /\ SameVote(st[s], T) /\ SameEpochs(st[s], T) /\ T.peers = st[s].peers
      /\ T.flags = st[s].flags /\ T.promoted = st[s].promoted
      /\ \/ T.fstate = st[s].fstate
         \/ T.fstate = "reconf_slaves" /\ st[s].fstate = "wait_promotion"
  BY ZenonT(60), <1>1, <1>2 DEF StateOK, Fields, SameVote, SameEpochs
<1>4. StateOK(T)
  BY <1>1, <1>3 DEF StateOK, PeersOK, SameVote, SameEpochs, Running, Chosen
<1>5. \/ disk' = [disk EXCEPT ![s] = RewriteConfig(T)]
      \/ disk' = disk /\ T.fstate = st[s].fstate
  BY <1>2 DEF Flush
<1> QED
  BY ZenonT(60), <1>1, <1>2, <1>3, <1>4, <1>5, QuietMove DEF SameVote

\* SENTINEL is-master-down-by-addr keeps VoteInv: it votes, flushes and answers in
\* one handler.
LEMMA VotesIsMasterDownByAddr ==
  ASSUME VoteInv, NEW s \in Sentinel, NEW p \in Sentinel, IsMasterDownByAddr(s, p)
  PROVE  VoteInv'
<1> DEFINE q == link[s][p]
           S == st[p]
           T == IF S.addr = q.addr /\ q.runid # Nil THEN VoteLeader(S, q.epoch, q.runid) ELSE S
<1>1. /\ DOMAIN st = Sentinel /\ DOMAIN disk = Sentinel /\ StateOK(S) /\ S.fstate # "update_config"
      /\ Kept(p, S, disk[p])
  BY DEF VoteInv, Kept
<1>2. PICK down, r :
        /\ q.kind = "req"
        /\ st' = [st EXCEPT ![p] = T]
        /\ IF T = S THEN UNCHANGED disk ELSE Flush(p, T)
        /\ ballots' = ballots \cup Voted(p, S, T)
        /\ link' = [link EXCEPT ![s][p] = r]
        /\ r.kind = "rep"
        /\ r.leader = Nil \/ SameVote(T, r)
  <2> DEFINE known == S.addr = q.addr
             d == known /\ ~S.tilt /\ "S_DOWN" \in S.flags
             r == [kind |-> "rep", down |-> d,
                   leader |-> IF known /\ q.runid # Nil THEN T.leader ELSE Nil,
                   leader_epoch |-> IF known /\ q.runid # Nil THEN T.leader_epoch ELSE 0]
  <2>1. r.kind = "rep" /\ (r.leader = Nil \/ SameVote(T, r))
    BY ZenonT(60) DEF SameVote
  <2>2. /\ q.kind = "req"
        /\ st' = [st EXCEPT ![p] = T]
        /\ IF T = S THEN UNCHANGED disk ELSE Flush(p, T)
        /\ ballots' = ballots \cup Voted(p, S, T)
        /\ link' = [link EXCEPT ![s][p] = r]
    BY ZenonT(60) DEF IsMasterDownByAddr
  <2> HIDE DEF r, T
  <2> QED
    BY ZenonT(60), <2>1, <2>2
<1>3. q.epoch \in Nat
  BY <1>2 DEF VoteInv, LinkInv
<1>4. /\ StateOK(T) /\ T.peers = S.peers /\ SamePhase(S, T) /\ MovesOn(S, T)
  <2>1. CASE S.addr = q.addr /\ q.runid # Nil
    <3> DEFINE V == VoteLeader(S, q.epoch, q.runid)
    <3>1. T = V
      BY ZenonT(60), <2>1
    <3> HIDE DEF T, S
    <3>2. StateOK(V) /\ V.peers = S.peers /\ SamePhase(S, V) /\ MovesOn(S, V)
      BY <1>1, <1>3, Cast DEF MovesOn
    <3> HIDE DEF V
    <3> QED
      BY <3>1, <3>2
  <2>2. CASE ~(S.addr = q.addr /\ q.runid # Nil)
    <3>1. T = S
      BY <2>2
    <3> QED
      BY ZenonT(60), <1>1, <3>1 DEF SamePhase, SameVote, MovesOn
  <2> QED
    BY ZenonT(60), <2>1, <2>2
<1> HIDE DEF T
<1>5. T.fstate = S.fstate /\ T.promoted = S.promoted
  BY <1>4 DEF SamePhase
<1>6. Kept(p, T, disk'[p]) /\ DOMAIN disk' = Sentinel /\ \A x \in Sentinel \ {p} : disk'[x] = disk[x]
  <2>1. CASE T = S /\ disk' = disk
    BY <1>1, <2>1
  <2>2. CASE disk' = [disk EXCEPT ![p] = RewriteConfig(T)]
    <3>1. Kept(p, T, RewriteConfig(T))
      BY ZenonT(60), <1>1, <1>4, <1>5, Rewritten DEF Kept
    <3> QED
      BY ZenonT(60), <1>1, <2>2, <3>1
  <2> QED
    BY ZenonT(60), <1>2, <2>1, <2>2 DEF Flush
<1>7. VoteMoves(S, T)
  BY ZenonT(60), <1>4 DEF VoteMoves, MovesOn, SameVote
<1>8. ballots \subseteq ballots' /\ (T.leader # Nil => <<p, T.leader_epoch, T.leader>> \in ballots')
  BY ZenonT(60), <1>2 DEF Voted, VoteInv, BallotInv
<1>9. \A x \in DOMAIN T.peers : Heard(ballots', x, T.peers[x])
  BY ZenonT(60), <1>4, <1>8 DEF VoteInv, Heard
<1>10. LinkInv'
  <2>1. /\ DOMAIN link' = Sentinel /\ \A x \in Sentinel : DOMAIN link'[x] = Sentinel
        /\ \A x, y \in Sentinel : link'[x][y] = IF x = s /\ y = p THEN r ELSE link[x][y]
    BY <1>2 DEF VoteInv, LinkInv
  <2>2. Heard(ballots', p, r)
    BY <1>2, <1>8 DEF Heard, SameVote
  <2> QED
    BY SMTT(60), <1>2, <1>8, <2>1, <2>2 DEF VoteInv, LinkInv, Heard
<1> QED
  BY ZenonT(60), <1>2, <1>6, <1>7, <1>9, <1>10, Moved

\* sentinelReceiveIsMasterDownReply keeps VoteInv: what it records was cast.
LEMMA VotesReceive ==
  ASSUME VoteInv, NEW s \in Sentinel, NEW p \in Sentinel, ReceiveIsMasterDownReply(s, p)
  PROVE  VoteInv'
<1> DEFINE r == link[s][p]
           P == [st[s].peers[p] EXCEPT !.down = r.down]
           R == IF r.leader = Nil THEN P
                ELSE [P EXCEPT !.leader = r.leader, !.leader_epoch = r.leader_epoch]
           T == [st[s] EXCEPT !.peers[p] = R]
<1>1. /\ DOMAIN st = Sentinel /\ DOMAIN disk = Sentinel /\ StateOK(st[s]) /\ Kept(s, st[s], disk[s])
  BY ZenonT(60) DEF VoteInv, Kept
<1>2. LinkInv'
  <2>1. link' = [link EXCEPT ![s][p] = Idle] /\ Idle.kind = "idle" /\ ballots' = ballots
    BY DEF ReceiveIsMasterDownReply, Idle
  <2>2. /\ DOMAIN link' = Sentinel /\ \A x \in Sentinel : DOMAIN link'[x] = Sentinel
        /\ \A x, y \in Sentinel : link'[x][y] = link[x][y] \/ link'[x][y].kind = "idle"
    BY <2>1 DEF VoteInv, LinkInv
  <2> QED
    BY <2>1, <2>2 DEF VoteInv, LinkInv, Heard
<1>3. UNCHANGED <<disk, ballots>>
  BY SMTT(60) DEF ReceiveIsMasterDownReply
<1>4. CASE p \notin DOMAIN st[s].peers
  <2>1. st' = st
    BY <1>4 DEF ReceiveIsMasterDownReply
  <2> QED
    BY <1>2, <1>3, <2>1 DEF VoteInv, BallotInv, OneVotePerEpoch, Heard
<1>5. CASE p \in DOMAIN st[s].peers
  <2>1. st' = [st EXCEPT ![s] = T] /\ r.kind = "rep"
    BY <1>1, <1>5 DEF ReceiveIsMasterDownReply
  <2>2. DOMAIN R = PeerFields /\ Heard(ballots, p, R)
    <3>1. DOMAIN st[s].peers[p] = PeerFields /\ Heard(ballots, p, st[s].peers[p]) /\ Heard(ballots, p, r)
      BY <1>1, <1>5, <2>1 DEF VoteInv, LinkInv, StateOK, PeersOK
    <3> QED
      BY <3>1 DEF PeerFields, Heard
  <2> HIDE DEF R
  <2>3. /\ DOMAIN T = Fields /\ SameVote(st[s], T) /\ SameEpochs(st[s], T)
        /\ T.peers = [st[s].peers EXCEPT ![p] = R]
        /\ T.flags = st[s].flags /\ T.fstate = st[s].fstate /\ T.promoted = st[s].promoted
    BY <1>1 DEF StateOK, Fields, SameVote, SameEpochs
  <2> HIDE DEF T
  <2>4. /\ DOMAIN T.peers = DOMAIN st[s].peers
        /\ \A x \in DOMAIN T.peers : T.peers[x] = IF x = p THEN R ELSE st[s].peers[x]
    BY ZenonT(60), <2>3
  <2>5. PeersOK(T) /\ \A x \in DOMAIN T.peers : Heard(ballots, x, T.peers[x])
    BY ZenonT(60), <1>1, <2>2, <2>4 DEF VoteInv, StateOK, PeersOK
  <2>6. StateOK(T)
    BY ZenonT(60), <1>1, <2>3, <2>5 DEF StateOK, SameVote, SameEpochs
  <2>7. Kept(s, T, disk[s])
    BY ZenonT(60), <1>1, <2>3, <2>4, <2>6 DEF Kept, SameVote
  <2>8. VoteMoves(st[s], T) /\ Voted(s, st[s], T) = {}
    BY <2>3 DEF VoteMoves, Voted, SameVote
  <2>9. \A x \in DOMAIN T.peers : Heard(ballots', x, T.peers[x])
    BY ZenonT(60), <1>3, <2>5 DEF Heard
  <2> QED
    BY ZenonT(60), <1>1, <1>2, <1>3, <2>1, <2>7, <2>8, <2>9, Moved
<1> QED
  BY ZenonT(60), <1>4, <1>5

\* The vote and the failover are left alone.
SameRun(S, T) ==
  /\ DOMAIN T = Fields /\ SameVote(S, T) /\ T.failover_epoch = S.failover_epoch
  /\ T.flags = S.flags /\ T.fstate = S.fstate /\ T.promoted = S.promoted

\* A new Sentinel enters the table with no vote; the others keep theirs.
LEMMA Discovered ==
  ASSUME NEW S, StateOK(S), NEW s
  PROVE  LET T == AddPeer(S, s)
         IN  /\ StateOK(T) /\ SameRun(S, T) /\ T.epoch = S.epoch
             /\ DOMAIN T.peers = DOMAIN S.peers \cup {s}
             /\ \A p \in DOMAIN T.peers :
                  \/ T.peers[p].leader = Nil
                  \/ p \in DOMAIN S.peers /\ T.peers[p] = S.peers[p]
<1> DEFINE T == AddPeer(S, s)
<1>1. /\ SameRun(S, T) /\ T.epoch = S.epoch
      /\ T.peers = [p \in DOMAIN S.peers \cup {s} |-> IF p = s THEN NewPeer ELSE S.peers[p]]
  BY DEF StateOK, SameRun, SameVote, Fields, AddPeer
<1> HIDE DEF T
<1>2. DOMAIN NewPeer = PeerFields /\ NewPeer.leader = Nil
  BY DEF NewPeer, PeerFields
<1>3. PeersOK(T)
  BY ZenonT(60), <1>1, <1>2 DEF StateOK, PeersOK
<1>4. StateOK(T)
  BY <1>1, <1>3 DEF StateOK, SameRun, SameVote
<1> QED
  BY <1>1, <1>2, <1>4 DEF T

\* sentinelProcessHelloMessage keeps VoteInv, whatever address it switches to.
LEMMA VotesHello ==
  ASSUME SentinelAssumption, VoteInv, NEW s \in Sentinel, NEW t \in Sentinel,
         ProcessHelloMessage(s, t)
  PROVE  VoteInv'
<1> DEFINE S == st[t]
           A == IF s \in DOMAIN S.peers THEN S ELSE AddPeer(S, s)
           B == IF st[s].epoch > A.epoch THEN [A EXCEPT !.epoch = st[s].epoch] ELSE A
           addr == GetCurrentMasterAddress(st[s])
           newer == B.config_epoch < st[s].config_epoch
           C == IF newer THEN [B EXCEPT !.config_epoch = st[s].config_epoch] ELSE B
           D == IF newer /\ addr # C.addr THEN ResetMasterAndChangeAddress(C, addr) ELSE C
<1> HIDE DEF A, B, addr, newer, C, D
<1>1. /\ DOMAIN st = Sentinel /\ DOMAIN disk = Sentinel /\ Kept(t, S, disk[t])
      /\ StateOK(S) /\ StateOK(st[s]) /\ S.fstate # "update_config"
  BY DEF VoteInv, Kept
<1>2. /\ st' = [st EXCEPT ![t] = D]
      /\ disk' = [disk EXCEPT ![t] = IF D # C THEN RewriteConfig(D)
                                     ELSE IF B # S THEN RewriteConfig(B) ELSE disk[t]]
      /\ UNCHANGED <<link, ballots>>
  BY ZenonT(60), <1>1 DEF ProcessHelloMessage, A, B, addr, newer, C, D
<1>3. s # t
  BY DEF SentinelAssumption, ProcessHelloMessage
<1>4. /\ StateOK(A) /\ SameRun(S, A)
      /\ DOMAIN A.peers \subseteq DOMAIN S.peers \cup {s} /\ DOMAIN S.peers \subseteq DOMAIN A.peers
      /\ \A p \in DOMAIN A.peers :
           \/ A.peers[p].leader = Nil
           \/ p \in DOMAIN S.peers /\ A.peers[p] = S.peers[p]
  <2>1. CASE s \in DOMAIN S.peers
    BY ZenonT(60), <1>1, <2>1 DEF SameRun, SameVote, StateOK, A
  <2>2. CASE s \notin DOMAIN S.peers
    <3>1. A = AddPeer(S, s)
      BY ZenonT(60), <2>2 DEF A
    <3> DEFINE N == AddPeer(S, s)
    <3>2. /\ StateOK(N) /\ SameRun(S, N) /\ DOMAIN N.peers = DOMAIN S.peers \cup {s}
          /\ \A p \in DOMAIN N.peers :
               \/ N.peers[p].leader = Nil
               \/ p \in DOMAIN S.peers /\ N.peers[p] = S.peers[p]
      BY SMTT(60), <1>1, Discovered
    <3> HIDE DEF N
    <3> QED
      BY <3>1, <3>2 DEF N
  <2> QED
    BY ZenonT(60), <2>1, <2>2
<1>5. KnownPeers(t, DOMAIN A.peers)
  BY <1>1, <1>3, <1>4 DEF Kept, KnownPeers
<1>6. StateOK(B) /\ SameRun(A, B) /\ B.peers = A.peers
  BY <1>1, <1>4 DEF StateOK, PeersOK, SameRun, SameVote, Fields, B
<1>7. StateOK(C) /\ SameRun(B, C) /\ C.peers = B.peers /\ C.addr = B.addr
  BY <1>1, <1>6 DEF StateOK, PeersOK, SameRun, SameVote, Fields, C, newer
<1>8. \/ D = C
      \/ D = ResetMasterAndChangeAddress(C, addr)
  BY ZenonT(60) DEF D
<1>9. /\ StateOK(D) /\ D.leader_epoch = C.leader_epoch /\ D.leader \in {C.leader, Nil}
      /\ D.peers = C.peers /\ (D = C \/ D.fstate = "none")
  <2>1. CASE D = C
    BY ZenonT(60), <1>7, <2>1
  <2>2. CASE D = ResetMasterAndChangeAddress(C, addr)
    BY ZenonT(60), <1>7, <2>2, Switched
  <2> QED
    BY ZenonT(60), <1>8, <2>1, <2>2
<1>10. /\ D.leader_epoch = S.leader_epoch /\ D.leader \in {S.leader, Nil}
       /\ D.peers = A.peers /\ D.fstate # "update_config"
       /\ D.fstate = "reconf_slaves" => S.fstate = "reconf_slaves" /\ D.promoted = S.promoted
       /\ B.leader_epoch = D.leader_epoch /\ B.fstate # "update_config"
       /\ D.fstate = "reconf_slaves" => B.fstate = "reconf_slaves" /\ D.promoted = B.promoted
  BY ZenonT(60), <1>1, <1>4, <1>6, <1>7, <1>9 DEF SameRun, SameVote
<1>11. Kept(t, B, RewriteConfig(B)) /\ Kept(t, D, RewriteConfig(D))
  BY ZenonT(60), <1>5, <1>6, <1>9, <1>10, Rewritten
<1>12. Kept(t, D, disk'[t])
  <2>1. disk'[t] \in {RewriteConfig(D), RewriteConfig(B), disk[t]}
    BY ZenonT(60), <1>1, <1>2
  <2>2. Kept(t, D, RewriteConfig(B))
    BY ZenonT(60), <1>9, <1>10, <1>11 DEF Kept
  <2>3. Kept(t, D, disk[t])
    BY ZenonT(60), <1>1, <1>9, <1>10, <1>11 DEF Kept
  <2> QED
    BY ZenonT(60), <1>11, <2>1, <2>2, <2>3
<1>13. VoteMoves(S, D) /\ Voted(t, S, D) = {}
  BY ZenonT(60), <1>10 DEF VoteMoves, Voted
<1>14. LinkInv'
  BY <1>2 DEF VoteInv, LinkInv
<1>15. \A p \in DOMAIN D.peers : Heard(ballots', p, D.peers[p])
  <2>1. \A p \in DOMAIN S.peers : Heard(ballots, p, S.peers[p])
    BY ZenonT(60) DEF VoteInv
  <2> QED
    BY ZenonT(60), <1>2, <1>4, <1>10, <2>1 DEF Heard
<1> QED
  BY ZenonT(60), <1>1, <1>2, <1>12, <1>13, <1>14, <1>15, Moved

\* SENTINEL FAILOVER, the TILT check and the failover of another master keep VoteInv.
LEMMA VotesCommands ==
  ASSUME VoteInv, NEW s \in Sentinel,
         \/ \E usable : FailoverCommand(s, usable)
         \/ CheckTiltCondition(s) \/ OtherMasterFailover(s)
  PROVE  VoteInv'
<1>1. DOMAIN st = Sentinel /\ StateOK(st[s]) /\ st[s].fstate # "update_config"
  BY ZenonT(60) DEF VoteInv, Kept
<1>2. PICK T :
        /\ st' = [st EXCEPT ![s] = T]
        /\ UNCHANGED <<disk, link, ballots>>
        /\ \/ T = [StartFailover(st[s]) EXCEPT !.flags = @ \cup {"FORCE"}]
           \/ T = [st[s] EXCEPT !.tilt = TRUE]
           \/ T = [st[s] EXCEPT !.epoch = @ + 1]
  BY <1>1 DEF FailoverCommand, CheckTiltCondition, OtherMasterFailover
<1>3. /\ DOMAIN T = Fields /\ SameVote(st[s], T) /\ T.peers = st[s].peers
      /\ T.epoch \in Nat /\ T.failover_epoch \in Nat
      /\ \/ T.fstate = "wait_start" /\ "IN_PROGRESS" \in T.flags
         \/ T.fstate = st[s].fstate /\ T.flags = st[s].flags /\ T.promoted = st[s].promoted
  <2>1. CASE T = [StartFailover(st[s]) EXCEPT !.flags = @ \cup {"FORCE"}]
    <3> DEFINE F == StartFailover(st[s])
    <3>1. /\ DOMAIN F = Fields /\ SameVote(st[s], F) /\ F.peers = st[s].peers
          /\ F.epoch \in Nat /\ F.failover_epoch \in Nat
          /\ F.fstate = "wait_start" /\ "IN_PROGRESS" \in F.flags
      BY <1>1 DEF StateOK, Fields, SameVote, StartFailover
    <3> HIDE DEF F
    <3> QED
      BY <2>1, <3>1 DEF Fields, SameVote, F
  <2>2. CASE T = [st[s] EXCEPT !.tilt = TRUE]
    BY <1>1, <2>2 DEF StateOK, Fields, SameVote
  <2>3. CASE T = [st[s] EXCEPT !.epoch = @ + 1]
    BY SMTT(60), <1>1, <2>3 DEF StateOK, Fields, SameVote
  <2> QED
    BY ZenonT(60), <1>2, <2>1, <2>2, <2>3
<1>4. StateOK(T) /\ T.fstate # "update_config"
  BY <1>1, <1>3 DEF StateOK, PeersOK, SameVote, Running, Chosen
<1> QED
  BY ZenonT(60), <1>2, <1>3, <1>4, QuietMove DEF SameVote

\* SENTINEL RESET keeps VoteInv.
LEMMA VotesReset ==
  ASSUME VoteInv, NEW s \in Sentinel, ResetCommand(s)
  PROVE  VoteInv'
<1>1. /\ DOMAIN st = Sentinel /\ DOMAIN disk = Sentinel /\ StateOK(st[s])
      /\ Kept(s, st[s], disk[s])
  BY DEF VoteInv, Kept
<1> DEFINE T == ResetMaster(st[s], FALSE)
<1>2. st' = [st EXCEPT ![s] = T] /\ UNCHANGED <<disk, link, ballots>> /\ "reset" \in Ops
  BY <1>1 DEF ResetCommand
<1>3. /\ StateOK(T) /\ T.leader_epoch = st[s].leader_epoch /\ T.leader = Nil
      /\ T.fstate = "none" /\ T.peers = << >>
  BY ZenonT(60), <1>1, Reset
<1> HIDE DEF T
<1>4. DOMAIN T.peers = {}
  BY SMTT(60), <1>3
<1>5. Kept(s, T, disk[s])
  BY ZenonT(60), <1>1, <1>2, <1>3, <1>4 DEF Kept, KnownPeers
<1>6. VoteMoves(st[s], T) /\ Voted(s, st[s], T) = {}
  BY ZenonT(60), <1>3 DEF VoteMoves, Voted
<1>7. LinkInv'
  BY <1>2 DEF VoteInv, LinkInv
<1> QED
  BY ZenonT(60), <1>1, <1>2, <1>4, <1>5, <1>6, <1>7, Moved

\* A restart keeps VoteInv: the epoch of the last vote comes back from the file.
LEMMA VotesRestart ==
  ASSUME VoteInv, NEW s \in Sentinel, Restart(s)
  PROVE  VoteInv'
<1>1. /\ DOMAIN st = Sentinel /\ DOMAIN disk = Sentinel /\ StateOK(st[s])
      /\ Kept(s, st[s], disk[s])
  BY DEF VoteInv, Kept
<1> DEFINE T == LoadConfig(disk[s])
<1>2. /\ st' = [st EXCEPT ![s] = T] /\ UNCHANGED <<disk, ballots>>
      /\ link' = [a \in Sentinel |-> [b \in Sentinel |-> IF s \in {a, b} THEN Idle ELSE link[a][b]]]
  BY DEF Restart
<1>3. /\ StateOK(T) /\ T.leader = Nil /\ T.leader_epoch = disk[s].leader_epoch
      /\ T.fstate = "none" /\ DOMAIN T.peers = disk[s].peers
      /\ \A p \in DOMAIN T.peers : T.peers[p].leader = Nil
  BY ZenonT(60), <1>1, Loaded DEF Kept, StateOK
<1> HIDE DEF T
<1>4. Kept(s, T, disk[s])
  BY ZenonT(60), <1>1, <1>3 DEF Kept
<1>5. VoteMoves(st[s], T) /\ Voted(s, st[s], T) = {}
  BY ZenonT(60), <1>1, <1>3 DEF VoteMoves, Voted, Kept
<1>6. LinkInv'
  <2>1. /\ DOMAIN link' = Sentinel /\ \A x \in Sentinel : DOMAIN link'[x] = Sentinel
        /\ \A x, y \in Sentinel : link'[x][y] = Idle \/ link'[x][y] = link[x][y]
    BY <1>2
  <2>2. Idle.kind = "idle"
    BY DEF Idle
  <2> QED
    BY ZenonT(60), <1>2, <2>1, <2>2 DEF VoteInv, LinkInv
<1>7. \A p \in DOMAIN T.peers : Heard(ballots', p, T.peers[p])
  BY ZenonT(60), <1>3 DEF Heard
<1> QED
  BY ZenonT(60), <1>1, <1>2, <1>4, <1>5, <1>6, <1>7, Moved

\* Lost connections and the instances' own SLAVEOFs do not touch the votes.
LEMMA VotesOther ==
  ASSUME VoteInv, NEW s \in Sentinel, LinkDown(s) \/ (\E i \in Inst : ExecSlaveOf(s, i))
  PROVE  VoteInv'
<1>1. /\ UNCHANGED <<st, disk, ballots>>
      /\ link' = link \/ \E p \in Sentinel : link' = [link EXCEPT ![s][p] = Idle]
  BY DEF LinkDown, ExecSlaveOf
<1>2. LinkInv'
  <2>1. /\ DOMAIN link' = Sentinel /\ \A x \in Sentinel : DOMAIN link'[x] = Sentinel
        /\ \A x, y \in Sentinel : link'[x][y] = Idle \/ link'[x][y] = link[x][y]
    BY <1>1 DEF VoteInv, LinkInv
  <2>2. Idle.kind = "idle"
    BY ZenonT(60) DEF Idle
  <2> QED
    BY <1>1, <2>1, <2>2 DEF VoteInv, LinkInv
<1> QED
  BY <1>1, <1>2 DEF VoteInv, BallotInv, OneVotePerEpoch

\* Sentinels that have just started have cast no vote.
LEMMA VotesInit == Init => VoteInv
<1> SUFFICES ASSUME Init PROVE VoteInv
  OBVIOUS
<1>1. \A s \in Sentinel :
        LET T == [LoadConfig(disk[s]) EXCEPT !.flags = {"S_DOWN"}]
        IN  /\ StateOK(T) /\ T.leader = Nil /\ T.leader_epoch = disk[s].leader_epoch
            /\ T.fstate = "none" /\ DOMAIN T.peers = disk[s].peers
            /\ \A p \in DOMAIN T.peers : T.peers[p].leader = Nil
  <2> TAKE s \in Sentinel
  <2> DEFINE L == LoadConfig(disk[s])
             T == [L EXCEPT !.flags = {"S_DOWN"}]
  <2>1. disk[s].epoch \in Nat /\ disk[s].leader_epoch \in Nat
    BY DEF Init, Start
  <2>2. /\ StateOK(L) /\ L.leader = Nil /\ L.leader_epoch = disk[s].leader_epoch
        /\ L.fstate = "none" /\ DOMAIN L.peers = disk[s].peers
        /\ \A p \in DOMAIN L.peers : L.peers[p].leader = Nil
    BY <2>1, Loaded
  <2> HIDE DEF L
  <2>3. /\ DOMAIN T = Fields /\ SameVote(L, T) /\ SameEpochs(L, T) /\ T.peers = L.peers
        /\ T.fstate = "none" /\ T.flags = {"S_DOWN"}
    BY <2>2 DEF StateOK, Fields, SameVote, SameEpochs
  <2> HIDE DEF T
  <2>4. StateOK(T)
    BY <2>2, <2>3 DEF StateOK, PeersOK, SameVote, SameEpochs, Running, Chosen
  <2> QED
    BY <2>2, <2>3, <2>4 DEF SameVote, T, L
<1>2. DOMAIN st = Sentinel /\ DOMAIN disk = Sentinel
  BY DEF Init
<1>3. \A s \in Sentinel :
        /\ StateOK(st[s]) /\ st[s].leader = Nil /\ st[s].leader_epoch = disk[s].leader_epoch
        /\ st[s].fstate = "none" /\ DOMAIN st[s].peers = disk[s].peers
        /\ \A p \in DOMAIN st[s].peers : st[s].peers[p].leader = Nil
  BY ZenonT(60), <1>1 DEF Init
<1>4. \A s \in Sentinel : disk[s].epoch \in Nat /\ disk[s].peers = Sentinel \ {s}
  BY ZenonT(60) DEF Init, Start
<1>5. \A s \in Sentinel : Kept(s, st[s], disk[s])
  BY <1>3, <1>4 DEF Kept, KnownPeers
<1>6. LinkInv
  BY DEF Init, LinkInv, Idle
<1>7. BallotInv
  BY <1>3 DEF Init, BallotInv, OneVotePerEpoch
<1> QED
  BY <1>2, <1>3, <1>5, <1>6, <1>7 DEF VoteInv, Heard

\* Every step keeps VoteInv.
LEMMA VotesNext == VoteInv /\ [Next]_vars => VoteInv'
<1> SUFFICES ASSUME VoteInv, [Next]_vars PROVE VoteInv'
  BY ZenonT(60)
<1>1. CASE UNCHANGED vars
  BY <1>1 DEF vars, VoteInv, LinkInv, BallotInv, OneVotePerEpoch
<1>2. ASSUME NEW s \in Sentinel, Timer(s)
      PROVE  VoteInv'
  BY ZenonT(60), <1>2, VotesHandleMaster, VotesHandleSlave, VotesCommands DEF Timer
<1>3. ASSUME NEW s \in Sentinel, Network(s)
      PROVE  VoteInv'
  BY ZenonT(60), <1>3, SentinelAssumption, VotesInfoFromMaster, VotesInfoFromSlave,
     VotesIsMasterDownByAddr, VotesReceive, VotesHello, VotesOther DEF Network
<1>4. ASSUME NEW s \in Sentinel, Admin(s)
      PROVE  VoteInv'
  BY <1>4, VotesCommands, VotesReset, VotesRestart DEF Admin
<1> QED
  BY <1>1, <1>2, <1>3, <1>4 DEF Next

\* A Sentinel votes for at most one candidate in an epoch (sentinelVoteLeader), over
\* any interleaving of timers, requests, lost answers, resets and restarts.
THEOREM VoteOnce == Spec => []OneVotePerEpoch
<1>1. VoteInv => OneVotePerEpoch
  BY ZenonT(60) DEF VoteInv, BallotInv
<1> QED
  BY <1>1, VotesInit, VotesNext, PTL DEF Spec

\* The promoted slave is the master of the configuration file whenever slaves are
\* being told to follow it, so that a restart in between does not go back.
THEOREM PromotionSaved == Spec => []SavedBeforeTold
<1>1. VoteInv => SavedBeforeTold
  BY DEF VoteInv, Kept, SavedBeforeTold
<1> QED
  BY <1>1, VotesInit, VotesNext, PTL DEF Spec

\* More than half of all the Sentinels, Q, voted for who in that epoch.
VotedBy(Q, B, epoch, who) ==
  /\ 2 * Cardinality(Q) > Cardinality(Sentinel)
  /\ \A q \in Q : <<q, epoch, who>> \in B

\* Every election counted in its own failover epoch is backed by such a majority.
ElectedInv ==
  \A e \in elected : e.failover_epoch = e.vote_epoch
    => \E Q \in SUBSET Sentinel : VotedBy(Q, ballots, e.vote_epoch, e.who)

\* What makes the majority of a count a majority of all Sentinels: SENTINEL RESET,
\* which empties the table whose size sentinelGetLeader halves, is not used, or the
\* configured quorum is itself more than half.
SafeQuorum == "reset" \in Ops => 2 * Quorum > Cardinality(Sentinel)

\* When sentinelGetLeader makes s the winner of the current epoch, more than half of
\* all Sentinels voted for it: peers whose answers were ballots, and s itself if it is
\* in the set M.
LEMMA Tallied ==
  ASSUME SafeQuorum, VoteInv, NEW s \in Sentinel, NEW S, StateOK(S), PeersFrom(st[s], S),
         NEW o \in GetLeader(s, S, S.epoch), o.winner = s
  PROVE  \E P \in SUBSET Sentinel, M \in SUBSET {s} :
           /\ 2 * Cardinality(P \cup M) > Cardinality(Sentinel)
           /\ \A p \in P : <<p, S.epoch, s>> \in ballots
           /\ M # {} => o.st.leader = s /\ o.st.leader_epoch = S.epoch
<1>0. IsFiniteSet(Sentinel) /\ Nil \notin Sentinel /\ Quorum \in Nat
  BY SentinelAssumption DEF SentinelAssumption
<1>1. PICK w : o = LeaderOutcome(s, S, S.epoch, w)
  BY DEF GetLeader
<1> DEFINE V == VoteLeader(S, S.epoch, IF w = Nil THEN s ELSE w)
           mine == V.leader # Nil /\ V.leader_epoch = S.epoch
           P == {p \in DOMAIN S.peers : S.peers[p].leader = s /\ S.peers[p].leader_epoch = S.epoch}
           M == IF mine /\ V.leader = s THEN {s} ELSE {}
           n == Cardinality(P) + IF mine /\ V.leader = s THEN 1 ELSE 0
<1>2. o.st = V /\ n >= Majority(S) /\ n >= Quorum
  <2> DEFINE votes == LeaderVotes(S)
             tally == [c \in Sentinel |->
                         votes[c] + IF mine /\ V.leader = c THEN 1 ELSE 0]
             top == IF w = Nil THEN 0 ELSE votes[w]
             win == IF mine /\ tally[V.leader] > top THEN V.leader ELSE w
  <2>1. o = [st |-> V, winner |-> IF win # Nil /\ tally[win] >= Majority(S) /\ tally[win] >= Quorum
                                  THEN win ELSE Nil]
    BY ZenonT(60), <1>1 DEF LeaderOutcome
  <2> HIDE DEF win, tally, V
  <2>2. o.st = V /\ o.winner = IF win # Nil /\ tally[win] >= Majority(S) /\ tally[win] >= Quorum
                               THEN win ELSE Nil
    BY <2>1
  <2>3. win = s /\ tally[s] >= Majority(S) /\ tally[s] >= Quorum
    BY ZenonT(60), <1>0, <2>2
  <2>4. tally[s] = votes[s] + IF mine /\ V.leader = s THEN 1 ELSE 0
    BY ZenonT(60) DEF tally
  <2>5. votes[s] = Cardinality(P)
    BY ZenonT(60) DEF LeaderVotes
  <2> QED
    BY ZenonT(60), <2>2, <2>3, <2>4, <2>5
<1> HIDE DEF V
<1>3. DOMAIN S.peers = DOMAIN st[s].peers /\ KnownPeers(s, DOMAIN S.peers)
  BY ZenonT(60) DEF PeersFrom, VoteInv, Kept
<1>4. P \in SUBSET Sentinel /\ s \notin P /\ IsFiniteSet(P) /\ IsFiniteSet(DOMAIN S.peers)
  BY ZenonT(60), <1>0, <1>3, FS_Subset DEF KnownPeers
<1>5. Cardinality(P \cup M) = n /\ n \in Nat
  <2>1. Cardinality(P) \in Nat /\ Cardinality(P \cup {s}) = Cardinality(P) + 1
    BY ZenonT(60), <1>4, FS_CardinalityType, FS_AddElement
  <2>2. P \cup {} = P
    BY ZenonT(60)
  <2>3. \/ M = {s} /\ n = Cardinality(P) + 1
        \/ M = {} /\ n = Cardinality(P) + 0
    BY ZenonT(60)
  <2> HIDE DEF P, M, n
  <2>4. CASE M = {s} /\ n = Cardinality(P) + 1
    BY SMTT(60), <2>1, <2>4
  <2>5. CASE M = {} /\ n = Cardinality(P) + 0
    <3>1. P \cup M = P
      BY ZenonT(60), <2>5
    <3> QED
      BY SMTT(60), <2>1, <2>5, <3>1
  <2> QED
    BY <2>3, <2>4, <2>5
<1>6. 2 * n > Cardinality(Sentinel)
  <2>1. Cardinality(Sentinel) \in Nat
    BY ZenonT(60), <1>0, FS_CardinalityType
  <2>2. CASE "reset" \notin Ops
    <3>1. Cardinality(DOMAIN S.peers) = Cardinality(Sentinel) - 1
      BY ZenonT(60), <1>0, <1>3, <2>2, FS_RemoveElement DEF KnownPeers
    <3>2. Majority(S) = (Cardinality(Sentinel) \div 2) + 1
      BY SMTT(60), <2>1, <3>1 DEF Majority
    <3> HIDE DEF n
    <3> QED
      BY SMTT(60), <1>2, <1>5, <2>1, <3>2
  <2>3. CASE 2 * Quorum > Cardinality(Sentinel)
    <3> HIDE DEF n
    <3> QED
      BY SMTT(60), <1>0, <1>2, <1>5, <2>1, <2>3
  <2> QED
    BY ZenonT(60), <2>2, <2>3 DEF SafeQuorum
<1>7. \A p \in P : <<p, S.epoch, s>> \in ballots
  <2> SUFFICES ASSUME NEW p \in P PROVE <<p, S.epoch, s>> \in ballots
    OBVIOUS
  <2>0. p \in DOMAIN S.peers /\ S.peers[p].leader = s /\ S.peers[p].leader_epoch = S.epoch
    BY ZenonT(60)
  <2> HIDE DEF P
  <2>1. st[s].peers[p].leader = s /\ st[s].peers[p].leader_epoch = S.epoch /\ s # Nil
    BY ZenonT(60), <1>0, <1>3, <2>0 DEF PeersFrom
  <2>2. Heard(ballots, p, st[s].peers[p])
    BY ZenonT(60), <1>3, <2>0 DEF VoteInv
  <2> QED
    BY ZenonT(60), <2>1, <2>2 DEF Heard
<1>8. M # {} => o.st.leader = s /\ o.st.leader_epoch = S.epoch
  BY <1>2
<1>9. M \in SUBSET {s}
  OBVIOUS
<1> HIDE DEF P, M, n, mine
<1> QED
  BY ZenonT(60), <1>4, <1>5, <1>6, <1>7, <1>8, <1>9

\* Every step keeps ElectedInv.
LEMMA ElectedNext == SafeQuorum /\ VoteInv /\ ElectedInv /\ [Next]_vars => ElectedInv'
<1> SUFFICES ASSUME SafeQuorum, VoteInv, ElectedInv, [Next]_vars PROVE ElectedInv'
  OBVIOUS
<1>0. VoteInv'
  BY VotesNext
<1>1. ASSUME elected' = elected, ballots \subseteq ballots'
      PROVE  ElectedInv'
  BY <1>1 DEF ElectedInv, VotedBy
<1>2. CASE UNCHANGED vars
  BY ZenonT(60), <1>1, <1>2 DEF vars
<1>3. ASSUME NEW s \in Sentinel, NEW late \in BOOLEAN, HandleMaster(s, late)
      PROVE  ElectedInv'
  <2>0. PICK S, T : TimerOutcome(s, S, T)
    BY <1>3, TimerStep
  <2>1. /\ StateOK(S) /\ PeersFrom(st[s], S)
        /\ st' = [st EXCEPT ![s] = T]
        /\ ballots' = ballots \cup Voted(s, S, T)
        /\ \/ elected' = elected
           \/ /\ elected' = elected \cup {[who |-> s, failover_epoch |-> S.failover_epoch,
                                           vote_epoch |-> S.epoch]}
              /\ \E o \in GetLeader(s, S, S.failover_epoch) :
                   o.winner = s /\ SameVote(o.st, T)
    BY ZenonT(60), <2>0 DEF TimerOutcome
  <2>2. CASE elected' = elected
    BY ZenonT(60), <1>1, <2>1, <2>2
  <2>3. ASSUME NEW o \in GetLeader(s, S, S.failover_epoch), o.winner = s, SameVote(o.st, T),
               elected' = elected \cup {[who |-> s, failover_epoch |-> S.failover_epoch,
                                         vote_epoch |-> S.epoch]}
        PROVE  ElectedInv'
    <3>1. ASSUME S.failover_epoch = S.epoch
          PROVE  \E Q \in SUBSET Sentinel : VotedBy(Q, ballots', S.epoch, s)
      <4>1. PICK P \in SUBSET Sentinel, M \in SUBSET {s} :
              /\ 2 * Cardinality(P \cup M) > Cardinality(Sentinel)
              /\ \A p \in P : <<p, S.epoch, s>> \in ballots
              /\ M # {} => o.st.leader = s /\ o.st.leader_epoch = S.epoch
        BY ZenonT(60), <2>1, <2>3, <3>1, Tallied
      <4>2. st'[s] = T /\ s # Nil
        BY ZenonT(60), <2>1, SentinelAssumption DEF VoteInv, SentinelAssumption
      <4>3. ASSUME NEW q \in M PROVE <<q, S.epoch, s>> \in ballots'
        <5>1. q = s /\ T.leader = s /\ T.leader_epoch = S.epoch
          BY ZenonT(60), <2>3, <4>1, <4>3 DEF SameVote
        <5> QED
          BY ZenonT(60), <1>0, <4>2, <5>1 DEF VoteInv, BallotInv
      <4>4. VotedBy(P \cup M, ballots', S.epoch, s)
        BY ZenonT(60), <2>1, <4>1, <4>3 DEF VotedBy
      <4> QED
        BY <4>4
    <3> DEFINE new == [who |-> s, failover_epoch |-> S.failover_epoch, vote_epoch |-> S.epoch]
    <3>2. new.who = s /\ new.failover_epoch = S.failover_epoch /\ new.vote_epoch = S.epoch
      BY ZenonT(60)
    <3>3. ballots \subseteq ballots' /\ elected' = elected \cup {new}
      BY <2>1, <2>3
    <3> HIDE DEF new
    <3> SUFFICES ASSUME NEW e \in elected', e.failover_epoch = e.vote_epoch
                 PROVE  \E Q \in SUBSET Sentinel : VotedBy(Q, ballots', e.vote_epoch, e.who)
      BY ZenonT(60) DEF ElectedInv, VotedBy
    <3>4. CASE e \in elected
      BY ZenonT(60), <3>3, <3>4 DEF ElectedInv, VotedBy
    <3>5. CASE e = new
      BY <3>1, <3>2, <3>5
    <3> QED
      BY <3>3, <3>4, <3>5
  <2> QED
    BY <2>1, <2>2, <2>3
<1>4. ASSUME NEW s \in Sentinel, NEW i \in Inst, HandleSlave(s, i) \/ ExecSlaveOf(s, i)
      PROVE  ElectedInv'
  BY <1>1, <1>4 DEF HandleSlave, ExecSlaveOf
<1>5. ASSUME NEW s \in Sentinel, NEW p \in Sentinel,
             \/ IsMasterDownByAddr(s, p) \/ ReceiveIsMasterDownReply(s, p)
             \/ ProcessHelloMessage(s, p)
      PROVE  ElectedInv'
  BY ZenonT(60), <1>1, <1>5 DEF IsMasterDownByAddr, ReceiveIsMasterDownReply, ProcessHelloMessage
<1>6. ASSUME NEW s \in Sentinel,
             \/ InfoFromMaster(s)
             \/ \E i \in Inst, settled, linkup \in BOOLEAN : InfoFromSlave(s, i, settled, linkup)
             \/ CheckTiltCondition(s) \/ LinkDown(s)
      PROVE  ElectedInv'
  BY ZenonT(60), <1>1, <1>6 DEF InfoFromMaster, InfoFromSlave, CheckTiltCondition, LinkDown
<1>7. ASSUME NEW s \in Sentinel, Admin(s)
      PROVE  ElectedInv'
  BY ZenonT(60), <1>1, <1>7 DEF Admin, FailoverCommand, ResetCommand, OtherMasterFailover, Restart
<1> QED
  BY SMTT(60), <1>2, <1>3, <1>4, <1>5, <1>6, <1>7 DEF Next, Timer, Network

\* Two majorities of one epoch share a voter, so they elected the same Sentinel.
LEMMA ElectedOnce == VoteInv /\ ElectedInv => OneLeaderPerEpoch
<1> SUFFICES ASSUME VoteInv, ElectedInv, NEW u \in elected, NEW v \in elected,
                    u.failover_epoch = u.vote_epoch, v.failover_epoch = v.vote_epoch,
                    u.vote_epoch = v.vote_epoch
             PROVE  u.who = v.who
  BY DEF OneLeaderPerEpoch
<1>1. PICK P \in SUBSET Sentinel : VotedBy(P, ballots, u.vote_epoch, u.who)
  BY DEF ElectedInv
<1>2. PICK Q \in SUBSET Sentinel : VotedBy(Q, ballots, v.vote_epoch, v.who)
  BY ZenonT(60) DEF ElectedInv
<1>3. P \cap Q # {}
  <2>1. IsFiniteSet(Sentinel) /\ P \subseteq Sentinel /\ Q \subseteq Sentinel
    BY SentinelAssumption DEF SentinelAssumption
  <2>2. /\ Cardinality(P) \in Nat /\ Cardinality(Q) \in Nat /\ Cardinality(Sentinel) \in Nat
    BY <2>1, FS_Subset, FS_CardinalityType
  <2>3. Cardinality(P) + Cardinality(Q) > Cardinality(Sentinel)
    BY <1>1, <1>2, <2>2 DEF VotedBy
  <2> QED
    BY ZenonT(60), <2>1, <2>3, FS_MajoritiesIntersect
<1>4. PICK q \in P \cap Q : TRUE
  BY ZenonT(60), <1>3
<1>5. <<q, u.vote_epoch, u.who>> \in ballots /\ <<q, u.vote_epoch, v.who>> \in ballots
  BY <1>1, <1>2, <1>4 DEF VotedBy
<1> QED
  BY <1>5 DEF VoteInv, BallotInv, OneVotePerEpoch

\* No two Sentinels win the same epoch (sentinelGetLeader, comment at sentinel.c:3658)
\* as long as the failover epoch is the current one when the votes are counted.
THEOREM LeaderOnce == ASSUME SafeQuorum PROVE Spec => []OneLeaderPerEpoch
<1>1. Init => VoteInv /\ ElectedInv
  BY VotesInit DEF Init, ElectedInv
<1>2. VoteInv /\ ElectedInv /\ [Next]_vars => (VoteInv /\ ElectedInv)'
  BY VotesNext, ElectedNext
<1> QED
  BY <1>1, <1>2, ElectedOnce, PTL DEF Spec
=============================================================================

----------------------------- MODULE MC_Sentinel ----------------------------
(* Sentinels in two deployments, the queue of scripts and the link to one    *)
(* instance, one of them at a time, as the variable part says, so that the   *)
(* state spaces add up.                                                      *)
EXTENDS Sentinel, SentinelScripts, SentinelLink, TLC

CONSTANTS Parts, sen1, sen2, sen3

VARIABLE part

\* "election": sen1 and sen2 reach the voter sen3, not each other.
Star == {{sen1, sen3}, {sen2, sen3}}
Rank(I) == [i \in I |-> CASE i = "m" -> 1 [] i = "r1" -> 2 [] OTHER -> 3]
Alike(I) == [i \in I |-> 1]
MCRank == Rank(Inst)
MCAlike == Alike(Inst)

\* "failover": one Sentinel of quorum 1, and two slaves to choose from.
Servers == {"m", "r1", "r2"}
F == INSTANCE Sentinel WITH
       Sentinel <- {sen1}, Active <- {sen1}, Quorum <- 1, Connected <- {}, Inst <- Servers,
       RunId <- Rank(Servers), Priority <- Alike(Servers), Offset <- Alike(Servers), Crashing <- {},
       Ops <- {"othermaster", "failover", "reset", "tilt", "recovery", "slavedown"}

SentinelInit ==
  /\ part \in Parts
  /\ IF part = "failover" THEN F!Init ELSE Init
  /\ ScriptInit /\ LinkInit

SentinelNext ==
  \/ part = "election" /\ Next /\ UNCHANGED <<part, scriptVars, linkVars>>
  \/ part = "failover" /\ F!Next /\ UNCHANGED <<part, scriptVars, linkVars>>
  \/ part = "scripts" /\ ScriptNext /\ UNCHANGED <<part, vars, linkVars>>
  \/ part = "link" /\ LinkNext /\ UNCHANGED <<part, vars, scriptVars>>

SentinelSpec ==
  /\ SentinelInit /\ [][SentinelNext]_<<part, vars, scriptVars, linkVars>>
  /\ WF_vars(part = "failover" /\ F!FailoverTimer(sen1))
  /\ WF_linkVars(part = "link" /\ \E idle \in BOOLEAN : HandleInstance(TRUE, TRUE, idle))
  /\ \A p \in Periods : WF_linkVars(part = "link" /\ PeriodPasses(p))

\* A failover under way ends (FailoverEnds of Sentinel) where the timer of its
\* Sentinel runs for ever: sentinelFailoverStateMachine times out in each state.
FailoversEnd == part = "failover" => F!FailoverEnds

\* What a failover leaves in memory belongs together, whatever aborts it
\* (sentinelAbortFailover, sentinelResetMaster...): the pointer to the promoted
\* slave and the flags of the slaves; and the queue of scripts keeps its limits.
SentinelSound == TypeOK /\ PromotedIsSlave /\ ReconfHasTarget /\ ScriptsBounded

\* A failover ends, and a link that hangs is noticed (sentinelTimer).
SentinelProgress == FailoversEnd /\ PingDetectsHang
=============================================================================

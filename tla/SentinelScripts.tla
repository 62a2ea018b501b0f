--------------------------- MODULE SentinelScripts ---------------------------
(***************************************************************************)
(* The queue of notification and reconfiguration scripts of a Sentinel     *)
(* (redis-4.0.6/src/sentinel.c).  Events schedule jobs; the timer runs the *)
(* pending ones in child processes, collects the children that ended, and  *)
(* kills the ones that run for too long, in that order.                    *)
(***************************************************************************)
EXTENDS Integers, FiniteSets, SequencesExt

CONSTANTS
  Job,            \* the jobs that may be scheduled, each once
  MaxQueue,       \* SENTINEL_SCRIPT_MAX_QUEUE
  MaxRunning,     \* SENTINEL_SCRIPT_MAX_RUNNING
  MaxRetry        \* SENTINEL_SCRIPT_MAX_RETRY

ASSUME ScriptAssumption == MaxRunning \in 1..(MaxQueue - 1) /\ MaxRetry \in Nat \ {0}

VARIABLES
  scripts_queue,    \* sequence of [job, running, retry_num, waits]
  running_scripts,  \* children believed to run
  unscheduled       \* jobs no event has asked for yet

scriptVars == <<scripts_queue, running_scripts, unscheduled>>

Drop(q, i) == SubSeq(q, 1, i - 1) \o SubSeq(q, i + 1, Len(q))

Running(q) == {i \in DOMAIN q : q[i].running}

(* Over the limit, the oldest job that does not run is dropped. *)
Trim(q) ==
  LET idle == DOMAIN q \ Running(q)
  IN IF Len(q) > MaxQueue /\ idle # {}
     THEN Drop(q, CHOOSE i \in idle : \A j \in idle : i <= j) ELSE q

ScheduleScriptExecution(j) ==
  /\ j \in unscheduled
  /\ scripts_queue' = Trim(Append(scripts_queue,
       [job |-> j, running |-> FALSE, retry_num |-> 0, waits |-> FALSE]))
  /\ unscheduled' = unscheduled \ {j}
  /\ UNCHANGED running_scripts

(* One job of sentinelRunPendingScripts: [q, n] becomes [q, n]; the fork   *)
(* may fail, and early says which delayed retries are still to wait.       *)
(* Beyond MaxRetry, where only failed forks lead, every count is the same. *)
Launch(qn, i, early, fails) ==
  LET j == qn.q[i]
  IN IF qn.n >= MaxRunning \/ j.running \/ (j.waits /\ j.job \in early) THEN qn
     ELSE [q |-> [qn.q EXCEPT ![i].running = j.job \notin fails, ![i].waits = FALSE,
                              ![i].retry_num = Min({@, MaxRetry}) + 1],
           n |-> IF j.job \in fails THEN qn.n ELSE qn.n + 1]

(* From the top of the queue, until MaxRunning children run. *)
RunPendingScripts(early, fails) ==
  LET q0 == [q |-> scripts_queue, n |-> running_scripts]
      end == FoldLeftDomain(LAMBDA qn, i : Launch(qn, i, early, fails), q0, scripts_queue)
  IN /\ scripts_queue' = end.q
     /\ running_scripts' = end.n
     /\ UNCHANGED unscheduled

(* A child that was killed or exits with 1 is run again later, and keeps   *)
(* its slot in running_scripts.                                            *)
Collect(i, retry) ==
  IF retry /\ scripts_queue[i].retry_num # MaxRetry
  THEN /\ scripts_queue' = [scripts_queue EXCEPT ![i].running = FALSE, ![i].waits = TRUE]
       /\ UNCHANGED running_scripts
  ELSE /\ scripts_queue' = Drop(scripts_queue, i)
       /\ running_scripts' = running_scripts - 1

(* wait3 returns a child; one killed by sentinelKillTimedoutScripts is     *)
(* one of those that ended by a signal.                                    *)
CollectTerminatedScript(j, retry) ==
  /\ \E i \in Running(scripts_queue) : scripts_queue[i].job = j /\ Collect(i, retry)
  /\ UNCHANGED unscheduled

ScriptInit == scripts_queue = << >> /\ running_scripts = 0 /\ unscheduled = Job

ScriptNext ==
  \/ \E j \in Job : ScheduleScriptExecution(j)
  \/ \E fails \in SUBSET {scripts_queue[i].job : i \in DOMAIN scripts_queue},
        early \in SUBSET {scripts_queue[i].job : i \in {k \in DOMAIN scripts_queue : scripts_queue[k].waits}} :
        RunPendingScripts(early, fails)
  \/ \E j \in Job, retry \in BOOLEAN : CollectTerminatedScript(j, retry)

ScriptSpec == ScriptInit /\ [][ScriptNext]_scriptVars
-----------------------------------------------------------------------------
(* The assertion of sentinelScheduleScriptExecution (the queue keeps its   *)
(* bound), and no more children than slots: running_scripts never counts   *)
(* fewer children than there are.                                          *)
ScriptsBounded ==
  /\ Len(scripts_queue) <= MaxQueue
  /\ Cardinality(Running(scripts_queue)) <= running_scripts
  /\ running_scripts <= MaxRunning
=============================================================================

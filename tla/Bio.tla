-------------------------------- MODULE Bio ---------------------------------
(* The background threads (bio.c) and what the main thread gives them to     *)
(* free (lazyfree.c). There is one thread for each type of job, with a mutex *)
(* and a queue of its own. A critical section is one step, as nobody else    *)
(* sees what it does before it unlocks; between two of them, and around the  *)
(* atomic updates of lazyfree_objects, the other threads may run.            *)
(* bioWaitStepOfType and its condition are left out: nothing calls it.       *)
EXTENDS Integers, Sequences, FiniteSets

CONSTANTS
  BioType,    \* the types of job
  LazyFree,   \* BIO_LAZY_FREE, one of them
  Effort,     \* what freeing a value may cost (lazyfreeGetFreeEffort)
  Threshold,  \* LAZYFREE_THRESHOLD
  Clustered,  \* server.cluster_enabled: the slots of the keys are kept too
  MaxValues,  \* bound: values ever added
  MaxJobs     \* bound: jobs ever created of each type

ASSUME BioAssumption ==
  /\ LazyFree \in BioType
  /\ Effort \subseteq Nat /\ Threshold \in Nat /\ Clustered \in BOOLEAN
  /\ MaxValues \in Nat /\ MaxJobs \in Nat

VARIABLES
  bio_jobs,         \* type -> its queue: the number of each job and what it frees
  bio_pending,      \* type -> the counter beside the queue
  thread,           \* type -> where its thread is: test, wait, job or done
  lazyfree_objects, \* the counter of objects still to free
  main,             \* what the main thread is about: at, type and objects of the job
  values,           \* the values in the database
  slots,            \* the keys in slots_to_keys
  born,             \* values added so far
  made,             \* type -> jobs created so far
  ran,              \* type -> the last job that ran
  given             \* the objects taken out of the tables and not yet freed

mainVars == <<values, slots, born>>
bioVars == <<bio_jobs, bio_pending, thread, lazyfree_objects, main, values, slots, born,
             made, ran, given>>

Value(v) == <<"value", v.id>>
Slot(i) == <<"slot", i>>
Idle == [at |-> "run", type |-> LazyFree, objs |-> {}, flush |-> FALSE]

(* bioInit: no jobs; each thread is about to take its lock and look.         *)
BioInit ==
  /\ bio_jobs = [t \in BioType |-> <<>>]
  /\ bio_pending = [t \in BioType |-> 0]
  /\ thread = [t \in BioType |-> "test"]
  /\ lazyfree_objects = 0
  /\ main = Idle
  /\ values = {} /\ slots = {} /\ born = 0
  /\ made = [t \in BioType |-> 0]
  /\ ran = [t \in BioType |-> 0]
  /\ given = {}

-----------------------------------------------------------------------------
(* The main thread                                                           *)

(* dbAdd *)
DbAdd(e) ==
  /\ main.at = "run" /\ born < MaxValues
  /\ values' = values \cup {[id |-> born, effort |-> e]}
  /\ slots' = IF Clustered THEN slots \cup {born} ELSE slots
  /\ born' = born + 1
  /\ UNCHANGED <<bio_jobs, bio_pending, thread, lazyfree_objects, main, made, ran, given>>

(* The counter goes up before the job is created.                            *)
HandOver(objs, flush) ==
  /\ lazyfree_objects' = lazyfree_objects + Cardinality(objs)
  /\ given' = given \cup objs
  /\ main' = [at |-> "create", type |-> LazyFree, objs |-> objs, flush |-> flush]

(* dbAsyncDelete: a value that takes long to free goes to the thread.        *)
DbAsyncDelete(v) ==
  /\ main.at = "run"
  /\ values' = values \ {v}
  /\ slots' = slots \ {v.id}
  /\ IF v.effort > Threshold
     THEN HandOver({Value(v)}, FALSE)
     ELSE UNCHANGED <<lazyfree_objects, given, main>>
  /\ UNCHANGED <<bio_jobs, bio_pending, thread, born, made, ran>>

(* emptyDbAsync; in a cluster emptyDb then calls slotToKeyFlushAsync.        *)
EmptyDbAsync ==
  /\ main.at = "run"
  /\ HandOver({Value(v) : v \in values}, Clustered)
  /\ values' = {}
  /\ UNCHANGED <<bio_jobs, bio_pending, thread, slots, born, made, ran>>

SlotToKeyFlushAsync ==
  /\ main.at = "flush"
  /\ HandOver({Slot(i) : i \in slots}, FALSE)
  /\ slots' = {}
  /\ UNCHANGED <<bio_jobs, bio_pending, thread, values, born, made, ran>>

(* A job of another type: a file to close or to fsync.                       *)
OtherJob(t) ==
  /\ main.at = "run" /\ t # LazyFree /\ made[t] < MaxJobs
  /\ main' = [at |-> "create", type |-> t, objs |-> {}, flush |-> FALSE]
  /\ UNCHANGED <<bio_jobs, bio_pending, thread, lazyfree_objects, mainVars, made, ran, given>>

(* bioCreateBackgroundJob without its signal, for comparison.                *)
BioCreateBackgroundJob_NoSignal(t) ==
  /\ main.at = "create" /\ main.type = t
  /\ bio_jobs' = [bio_jobs EXCEPT ![t] = Append(@, [id |-> made[t] + 1, objs |-> main.objs])]
  /\ bio_pending' = [bio_pending EXCEPT ![t] = @ + 1]
  /\ made' = [made EXCEPT ![t] = @ + 1]
  /\ main' = IF main.flush THEN [Idle EXCEPT !.at = "flush"] ELSE Idle
  /\ UNCHANGED <<thread, lazyfree_objects, mainVars, ran, given>>

(* bioCreateBackgroundJob: one critical section, with the signal to a thread *)
(* that waits for a job.                                                     *)
BioCreateBackgroundJob(t) ==
  /\ main.at = "create" /\ main.type = t
  /\ bio_jobs' = [bio_jobs EXCEPT ![t] = Append(@, [id |-> made[t] + 1, objs |-> main.objs])]
  /\ bio_pending' = [bio_pending EXCEPT ![t] = @ + 1]
  /\ thread' = IF thread[t] = "wait" THEN [thread EXCEPT ![t] = "test"] ELSE thread
  /\ made' = [made EXCEPT ![t] = @ + 1]
  /\ main' = IF main.flush THEN [Idle EXCEPT !.at = "flush"] ELSE Idle
  /\ UNCHANGED <<lazyfree_objects, mainVars, ran, given>>

(* freeMemoryIfNeeded has nothing left to evict: it waits until no job is    *)
(* pending (bioPendingJobsOfType), or until enough memory came back.         *)
EvictWait ==
  /\ main.at = "run"
  /\ main' = [Idle EXCEPT !.at = "evict"]
  /\ UNCHANGED <<bio_jobs, bio_pending, thread, lazyfree_objects, mainVars, made, ran, given>>

EvictDone ==
  /\ main.at = "evict" /\ bio_pending[LazyFree] = 0
  /\ main' = Idle
  /\ UNCHANGED <<bio_jobs, bio_pending, thread, lazyfree_objects, mainVars, made, ran, given>>

EvictEnough ==
  /\ main.at = "evict" /\ bio_pending[LazyFree] # 0
  /\ main' = Idle
  /\ UNCHANGED <<bio_jobs, bio_pending, thread, lazyfree_objects, mainVars, made, ran, given>>

-----------------------------------------------------------------------------
(* A background thread (bioProcessBackgroundJobs)                            *)

(* The top of the loop, with the lock held.                                  *)
LoopTop(q) == IF q = <<>> THEN "wait" ELSE "job"

BioTest(t) ==
  /\ thread[t] = "test"
  /\ thread' = [thread EXCEPT ![t] = LoopTop(bio_jobs[t])]
  /\ UNCHANGED <<bio_jobs, bio_pending, lazyfree_objects, main, mainVars, made, ran, given>>

(* pthread_cond_wait may also return without a signal.                       *)
BioWake(t) ==
  /\ thread[t] = "wait"
  /\ thread' = [thread EXCEPT ![t] = "test"]
  /\ UNCHANGED <<bio_jobs, bio_pending, lazyfree_objects, main, mainVars, made, ran, given>>

(* The first job runs without the lock; its node stays in the queue. The     *)
(* counter goes down by what was freed.                                      *)
BioProcess(t) ==
  /\ thread[t] = "job"
  /\ thread' = [thread EXCEPT ![t] = "done"]
  /\ ran' = [ran EXCEPT ![t] = Head(bio_jobs[t]).id]
  /\ lazyfree_objects' = lazyfree_objects - Cardinality(Head(bio_jobs[t]).objs)
  /\ given' = given \ Head(bio_jobs[t]).objs
  /\ UNCHANGED <<bio_jobs, bio_pending, main, mainVars, made>>

(* With the lock again the node goes, and the loop starts over.              *)
BioRemove(t) ==
  /\ thread[t] = "done"
  /\ bio_jobs' = [bio_jobs EXCEPT ![t] = Tail(@)]
  /\ bio_pending' = [bio_pending EXCEPT ![t] = @ - 1]
  /\ thread' = [thread EXCEPT ![t] = LoopTop(Tail(bio_jobs[t]))]
  /\ UNCHANGED <<lazyfree_objects, main, mainVars, made, ran, given>>

BioThread(t) == BioTest(t) \/ BioProcess(t) \/ BioRemove(t)

BioNext ==
  \/ \E e \in Effort : DbAdd(e)
  \/ made[LazyFree] < MaxJobs - 1 /\ (EmptyDbAsync \/ \E v \in values : DbAsyncDelete(v))
  \/ SlotToKeyFlushAsync
  \/ EvictWait \/ EvictDone \/ EvictEnough
  \/ \E t \in BioType : OtherJob(t) \/ BioCreateBackgroundJob(t) \/ BioWake(t) \/ BioThread(t)

BioSpec == BioInit /\ [][BioNext]_bioVars

-----------------------------------------------------------------------------
\* The places of a queue whose job has not run: all but the first once it is done.
Unrun(t) == {i \in DOMAIN bio_jobs[t] : i # 1 \/ thread[t] # "done"}

\* Jobs run once each and in the order they were created, the counter beside a
\* queue is its length whenever the lock is free, and no thread sleeps while a
\* job is in its queue (bioCreateBackgroundJob, bioProcessBackgroundJobs).
JobsExact ==
  \A t \in BioType :
    /\ bio_pending[t] = Len(bio_jobs[t])
    /\ \A i \in DOMAIN bio_jobs[t] : bio_jobs[t][i].id = made[t] - Len(bio_jobs[t]) + i
    /\ ran[t] = made[t] - Len(bio_jobs[t]) + (IF thread[t] = "done" THEN 1 ELSE 0)
    /\ thread[t] = "wait" => bio_jobs[t] = <<>>
    /\ thread[t] \in {"job", "done"} => bio_jobs[t] # <<>>

\* Each object taken out of the tables is in the main thread's hands or in
\* exactly one job that has not run, no table still has it, and lazyfree_objects
\* counts these objects: it never goes below zero, which would be a huge size_t
\* (dbAsyncDelete, emptyDbAsync, slotToKeyFlushAsync, the FromBioThread functions).
LazyExact ==
  /\ lazyfree_objects = Cardinality(given)
  /\ given = main.objs \cup UNION {bio_jobs[LazyFree][i].objs : i \in Unrun(LazyFree)}
  /\ \A i \in Unrun(LazyFree) :
       /\ bio_jobs[LazyFree][i].objs \cap main.objs = {}
       /\ \A j \in Unrun(LazyFree) :
            i # j => bio_jobs[LazyFree][i].objs \cap bio_jobs[LazyFree][j].objs = {}
  /\ \A v \in values : Value(v) \notin given
  /\ \A i \in slots : Slot(i) \notin given

\* Whatever is given away is freed in the end, and a main thread that waits for
\* it goes on (freeMemoryIfNeeded).
AllFreed == []<>(main.at = "run" /\ \A t \in BioType : bio_jobs[t] = <<>>)
=============================================================================

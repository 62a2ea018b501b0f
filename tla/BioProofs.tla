----------------------------- MODULE BioProofs ------------------------------
(***************************************************************************)
(* Theorems about the background threads for every set of job types, every *)
(* number of jobs and values, and every interleaving of the main thread    *)
(* with the others: BioSpec keeps JobsExact and LazyExact.                 *)
(*                                                                         *)
(* Both are first stated of one queue q with the state th of its thread,   *)
(* so that what an operation does to a queue is a lemma about sequences;   *)
(* JobsInv and LazyInv add the types and what makes the two inductive.     *)
(***************************************************************************)
EXTENDS Bio, SequenceTheorems, FiniteSetTheorems, TLAPS

Objects == {"value", "slot"} \X Nat
Job == [id : Int, objs : SUBSET Objects]
ThreadState == {"test", "wait", "job", "done"}
MainState == [at : {"run", "create", "flush", "evict"}, type : BioType,
              objs : SUBSET Objects, flush : BOOLEAN]

\* What JobsExact says of one type: its queue, counter, thread, jobs made and run.
QueueOK(q, p, th, m, r) ==
  /\ p = Len(q)
  /\ \A i \in DOMAIN q : q[i].id = m - Len(q) + i
  /\ r = m - Len(q) + (IF th = "done" THEN 1 ELSE 0)
  /\ th = "wait" => q = <<>>
  /\ th \in {"job", "done"} => q # <<>>

\* The numbers of a job and its place in a queue it is appended to.
LEMMA QueueCreate ==
  ASSUME NEW q \in Seq(Job), NEW p, NEW th \in ThreadState, NEW m \in Int, NEW r,
         QueueOK(q, p, th, m, r), NEW o \in SUBSET Objects
  PROVE  LET a == Append(q, [id |-> m + 1, objs |-> o])
         IN  /\ a \in Seq(Job)
             /\ QueueOK(a, p + 1, IF th = "wait" THEN "test" ELSE th, m + 1, r)
<1> DEFINE j == [id |-> m + 1, objs |-> o]
           a == Append(q, j)
<1>1. j \in Job /\ j.id = m + 1
  BY DEF Job
<1> HIDE DEF j
<1>2. /\ a \in Seq(Job) /\ Len(a) = Len(q) + 1 /\ Len(q) \in Nat /\ a # <<>>
      /\ \A i \in 1 .. Len(q) : a[i] = q[i]
      /\ a[Len(q) + 1] = j
      /\ DOMAIN a = 1 .. Len(q) + 1 /\ DOMAIN q = 1 .. Len(q)
  BY <1>1, AppendProperties
<1> HIDE DEF a
<1>3. \A i \in DOMAIN a : a[i].id = (m + 1) - Len(a) + i
  <2> SUFFICES ASSUME NEW i \in DOMAIN a PROVE a[i].id = (m + 1) - Len(a) + i
    OBVIOUS
  <2>1. CASE i \in 1 .. Len(q)
    BY <1>2, <2>1 DEF QueueOK
  <2>2. CASE i = Len(q) + 1
    BY <1>1, <1>2, <2>2
  <2> QED
    BY <1>2, <2>1, <2>2
<1>4. r = (m + 1) - Len(a) + (IF th = "done" THEN 1 ELSE 0)
  BY <1>2 DEF QueueOK
<1>5. QueueOK(a, p + 1, IF th = "wait" THEN "test" ELSE th, m + 1, r)
  BY <1>2, <1>3, <1>4 DEF QueueOK, ThreadState
<1> QED
  BY <1>2, <1>5 DEF a, j

\* The job that runs is the next one in the order of creation.
LEMMA QueueProcess ==
  ASSUME NEW q \in Seq(Job), NEW p, NEW m \in Int, NEW r, QueueOK(q, p, "job", m, r)
  PROVE  Head(q).id \in Int /\ QueueOK(q, p, "done", m, Head(q).id)
<1>1. q # <<>> /\ Len(q) \in Nat /\ DOMAIN q = 1 .. Len(q)
  BY DEF QueueOK
<1>2. Head(q) = q[1] /\ 1 \in DOMAIN q /\ q[1] \in Job
  BY <1>1, HeadTailProperties
<1>3. q[1].id = m - Len(q) + 1 /\ q[1].id \in Int
  BY <1>1, <1>2 DEF QueueOK, Job
<1> QED
  BY <1>1, <1>2, <1>3 DEF QueueOK

\* The node that goes is that of the job that ran.
LEMMA QueueRemove ==
  ASSUME NEW q \in Seq(Job), NEW p, NEW m \in Int, NEW r, QueueOK(q, p, "done", m, r)
  PROVE  /\ Tail(q) \in Seq(Job) /\ LoopTop(Tail(q)) \in {"wait", "job"}
         /\ QueueOK(Tail(q), p - 1, LoopTop(Tail(q)), m, r)
<1> DEFINE a == Tail(q)
<1>1. q # <<>> /\ Len(q) \in Nat \ {0} /\ DOMAIN q = 1 .. Len(q)
  BY EmptySeq DEF QueueOK
<1>2. /\ a \in Seq(Job) /\ Len(a) = Len(q) - 1
      /\ \A i \in 1 .. Len(a) : a[i] = q[i + 1]
      /\ DOMAIN a = 1 .. Len(a)
  BY <1>1, HeadTailProperties
<1> HIDE DEF a
<1>3. \A i \in DOMAIN a : a[i].id = m - Len(a) + i
  <2> SUFFICES ASSUME NEW i \in DOMAIN a PROVE a[i].id = m - Len(a) + i
    OBVIOUS
  <2>1. i \in Int /\ i + 1 \in DOMAIN q /\ a[i] = q[i + 1]
    BY <1>1, <1>2
  <2>2. q[i + 1].id = m - Len(q) + (i + 1)
    BY <2>1 DEF QueueOK
  <2> QED
    BY <1>1, <1>2, <2>1, <2>2
<1>4. LoopTop(a) \in {"wait", "job"} /\ (LoopTop(a) = "wait" <=> a = <<>>)
  BY DEF LoopTop
<1>5. QueueOK(a, p - 1, LoopTop(a), m, r)
  BY <1>1, <1>2, <1>3, <1>4 DEF QueueOK
<1> QED
  BY <1>2, <1>4, <1>5 DEF a

\* JobsExact with the types; only jobs of LazyFree free objects.
JobsInv ==
  /\ bio_jobs \in [BioType -> Seq(Job)]
  /\ bio_pending \in [BioType -> Int]
  /\ made \in [BioType -> Int]
  /\ ran \in [BioType -> Int]
  /\ thread \in [BioType -> ThreadState]
  /\ main \in MainState
  /\ main.type # LazyFree => main.objs = {}
  /\ values \subseteq [id : Nat, effort : Nat]
  /\ slots \subseteq Nat
  /\ born \in Nat
  /\ \A t \in BioType \ {LazyFree} : \A i \in DOMAIN bio_jobs[t] : bio_jobs[t][i].objs = {}
  /\ \A t \in BioType : QueueOK(bio_jobs[t], bio_pending[t], thread[t], made[t], ran[t])

\* The queues are empty when bioInit has run.
LEMMA JobsInit == BioInit => JobsInv
<1> SUFFICES ASSUME BioInit PROVE JobsInv
  OBVIOUS
<1>1. <<>> \in Seq(Job) /\ Len(<<>>) = 0
  BY EmptySeq
<1>2. main \in MainState /\ main.objs = {}
  BY BioAssumption DEF BioInit, Idle, MainState
<1> QED
  BY <1>1, <1>2 DEF BioInit, JobsInv, QueueOK, ThreadState

\* The steps that leave the queues alone and change only what main is about.
LEMMA JobsMain ==
  ASSUME JobsInv, UNCHANGED <<bio_jobs, bio_pending, thread, made, ran>>,
         main' \in MainState, main'.type # LazyFree => main'.objs = {},
         values' \subseteq [id : Nat, effort : Nat], slots' \subseteq Nat, born' \in Nat
  PROVE  JobsInv'
BY DEF JobsInv

\* Every step keeps JobsInv.
LEMMA JobsNext == JobsInv /\ [BioNext]_bioVars => JobsInv'
<1> SUFFICES ASSUME JobsInv, [BioNext]_bioVars PROVE JobsInv'
  OBVIOUS
<1> USE BioAssumption
<1>0. /\ Idle \in MainState /\ Idle.objs = {}
      /\ [Idle EXCEPT !.at = "flush"] \in MainState /\ [Idle EXCEPT !.at = "flush"].objs = {}
      /\ [Idle EXCEPT !.at = "evict"] \in MainState /\ [Idle EXCEPT !.at = "evict"].objs = {}
  BY ZenonT(60) DEF Idle, MainState
<1>a. ASSUME NEW o \in SUBSET Objects, NEW f \in BOOLEAN, NEW t \in BioType
      PROVE  [at |-> "create", type |-> t, objs |-> o, flush |-> f] \in MainState
  BY DEF MainState
<1>1. CASE UNCHANGED bioVars
  BY SMTT(60), <1>1, JobsMain DEF JobsInv, bioVars
<1>2. ASSUME NEW e \in Effort, DbAdd(e) PROVE JobsInv'
  <2>1. [id |-> born, effort |-> e] \in [id : Nat, effort : Nat] /\ born \in Nat
    BY ZenonT(60) DEF JobsInv
  <2>2. /\ values' \subseteq [id : Nat, effort : Nat] /\ slots' \subseteq Nat /\ born' \in Nat
        /\ UNCHANGED <<bio_jobs, bio_pending, thread, made, ran, main>>
    BY <1>2, <2>1 DEF DbAdd, JobsInv
  <2> QED
    BY ZenonT(60), <2>2, JobsMain DEF JobsInv
<1>3. ASSUME EmptyDbAsync PROVE JobsInv'
  <2>1. {Value(v) : v \in values} \in SUBSET Objects
    BY DEF Value, Objects, JobsInv
  <2>2. main' \in MainState /\ main'.type = LazyFree
    BY <1>3, <1>a, <2>1 DEF EmptyDbAsync, HandOver
  <2> QED
    BY SMTT(60), <1>3, <2>2, JobsMain DEF EmptyDbAsync, JobsInv
<1>4. ASSUME NEW v \in values, DbAsyncDelete(v) PROVE JobsInv'
  <2>1. {Value(v)} \in SUBSET Objects
    BY DEF Value, Objects, JobsInv
  <2>2. main' \in MainState /\ (main'.type = LazyFree \/ main' = main)
    <3>1. CASE v.effort > Threshold
      <4>1. HandOver({Value(v)}, FALSE)
        BY ZenonT(60), <1>4, <3>1 DEF DbAsyncDelete
      <4>2. main' = [at |-> "create", type |-> LazyFree, objs |-> {Value(v)}, flush |-> FALSE]
        BY <4>1 DEF HandOver
      <4> QED
        BY ZenonT(60), <1>a, <2>1, <4>2
    <3>2. CASE ~(v.effort > Threshold)
      BY ZenonT(60), <1>4, <3>2 DEF DbAsyncDelete, JobsInv
    <3> QED
      BY <3>1, <3>2
  <2> QED
    BY ZenonT(60), <1>4, <2>2, JobsMain DEF DbAsyncDelete, JobsInv
<1>5. ASSUME SlotToKeyFlushAsync PROVE JobsInv'
  <2>1. {Slot(i) : i \in slots} \in SUBSET Objects
    BY DEF Slot, Objects, JobsInv
  <2>2. main' \in MainState /\ main'.type = LazyFree
    BY ZenonT(60), <1>5, <1>a, <2>1 DEF SlotToKeyFlushAsync, HandOver
  <2> QED
    BY ZenonT(60), <1>5, <2>2, JobsMain DEF SlotToKeyFlushAsync, JobsInv
<1>6. ASSUME EvictWait \/ EvictDone \/ EvictEnough PROVE JobsInv'
  BY ZenonT(60), <1>0, <1>6, JobsMain DEF EvictWait, EvictDone, EvictEnough, mainVars, JobsInv
<1>7. ASSUME NEW t \in BioType, OtherJob(t) PROVE JobsInv'
  <2>1. main' \in MainState /\ main'.objs = {}
    BY ZenonT(60), <1>7, <1>a DEF OtherJob
  <2> QED
    BY ZenonT(60), <1>7, <2>1, JobsMain DEF OtherJob, mainVars, JobsInv
<1>8. ASSUME NEW t \in BioType, BioCreateBackgroundJob(t) PROVE JobsInv'
  <2> DEFINE a == Append(bio_jobs[t], [id |-> made[t] + 1, objs |-> main.objs])
             h == IF thread[t] = "wait" THEN "test" ELSE thread[t]
  <2>1. main.objs \in SUBSET Objects /\ main' \in MainState /\ main'.objs = {}
    BY ZenonT(60), <1>0, <1>8 DEF BioCreateBackgroundJob, JobsInv, MainState
  <2>2. a \in Seq(Job) /\ QueueOK(a, bio_pending[t] + 1, h, made[t] + 1, ran[t])
    BY <2>1, QueueCreate DEF JobsInv
  <2>3. ASSUME t # LazyFree PROVE \A i \in DOMAIN a : a[i].objs = {}
    <3>1. main.objs = {} /\ bio_jobs[t] \in Seq(Job)
      BY SMTT(60), <1>8, <2>3 DEF BioCreateBackgroundJob, JobsInv
    <3>2. [id |-> made[t] + 1, objs |-> main.objs] \in Job
      BY <2>1 DEF Job, JobsInv
    <3>3. \A i \in DOMAIN bio_jobs[t] : bio_jobs[t][i].objs = {}
      BY <2>3 DEF JobsInv
    <3>4. /\ DOMAIN a = 1 .. Len(bio_jobs[t]) + 1 /\ DOMAIN bio_jobs[t] = 1 .. Len(bio_jobs[t])
          /\ Len(bio_jobs[t]) \in Nat
          /\ \A i \in 1 .. Len(bio_jobs[t]) : a[i] = bio_jobs[t][i]
          /\ a[Len(bio_jobs[t]) + 1].objs = main.objs
      BY <3>1, <3>2, AppendProperties
    <3> HIDE DEF a
    <3> QED
      BY <3>1, <3>3, <3>4
  <2>4. h \in ThreadState
    BY DEF JobsInv, ThreadState
  <2>5. /\ bio_jobs' = [bio_jobs EXCEPT ![t] = a]
        /\ bio_pending' = [bio_pending EXCEPT ![t] = bio_pending[t] + 1]
        /\ made' = [made EXCEPT ![t] = made[t] + 1]
        /\ thread' = [thread EXCEPT ![t] = h]
        /\ UNCHANGED <<ran, values, slots, born>>
    BY ZenonT(60), <1>8 DEF BioCreateBackgroundJob, JobsInv, mainVars
  <2> HIDE DEF a, h
  <2> QED
    BY SMTT(60), <2>1, <2>2, <2>3, <2>4, <2>5 DEF JobsInv
<1>9. ASSUME NEW t \in BioType, BioWake(t) \/ BioTest(t) PROVE JobsInv'
  <2>1. PICK h \in ThreadState : /\ thread' = [thread EXCEPT ![t] = h]
                                 /\ h = "wait" => bio_jobs[t] = <<>>
                                 /\ h = "job" => bio_jobs[t] # <<>>
                                 /\ h # "done" /\ thread[t] # "done"
    BY <1>9 DEF BioWake, BioTest, LoopTop, ThreadState
  <2>2. QueueOK(bio_jobs[t], bio_pending[t], h, made[t], ran[t])
    BY <2>1 DEF QueueOK, JobsInv
  <2>3. UNCHANGED <<bio_jobs, bio_pending, made, ran, main, values, slots, born>>
    BY <1>9 DEF BioWake, BioTest, mainVars
  <2> QED
    BY <2>1, <2>2, <2>3 DEF JobsInv
<1>10. ASSUME NEW t \in BioType, BioProcess(t) PROVE JobsInv'
  <2>1. Head(bio_jobs[t]).id \in Int
        /\ QueueOK(bio_jobs[t], bio_pending[t], "done", made[t], Head(bio_jobs[t]).id)
    BY <1>10, QueueProcess DEF BioProcess, JobsInv
  <2>2. /\ thread' = [thread EXCEPT ![t] = "done"]
        /\ ran' = [ran EXCEPT ![t] = Head(bio_jobs[t]).id]
        /\ UNCHANGED <<bio_jobs, bio_pending, made, main, values, slots, born>>
    BY <1>10 DEF BioProcess, mainVars
  <2> QED
    BY ZenonT(60), <2>1, <2>2 DEF JobsInv, ThreadState
<1>11. ASSUME NEW t \in BioType, BioRemove(t) PROVE JobsInv'
  <2> DEFINE a == Tail(bio_jobs[t])
  <2>1. /\ a \in Seq(Job) /\ LoopTop(a) \in ThreadState
        /\ QueueOK(a, bio_pending[t] - 1, LoopTop(a), made[t], ran[t])
    BY <1>11, QueueRemove DEF BioRemove, JobsInv, ThreadState
  <2>2. /\ bio_jobs' = [bio_jobs EXCEPT ![t] = a]
        /\ bio_pending' = [bio_pending EXCEPT ![t] = bio_pending[t] - 1]
        /\ thread' = [thread EXCEPT ![t] = LoopTop(a)]
        /\ UNCHANGED <<made, ran, main, values, slots, born>>
    BY <1>11 DEF BioRemove, mainVars
  <2>3. ASSUME t # LazyFree PROVE \A i \in DOMAIN a : a[i].objs = {}
    <3>1. bio_jobs[t] \in Seq(Job) /\ bio_jobs[t] # <<>>
      BY <1>11 DEF BioRemove, JobsInv, QueueOK
    <3>2. /\ DOMAIN a = 1 .. Len(bio_jobs[t]) - 1 /\ DOMAIN bio_jobs[t] = 1 .. Len(bio_jobs[t])
          /\ Len(bio_jobs[t]) \in Nat
          /\ \A i \in 1 .. Len(bio_jobs[t]) - 1 : a[i] = bio_jobs[t][i + 1]
      BY <3>1, HeadTailProperties
    <3>3. \A i \in DOMAIN bio_jobs[t] : bio_jobs[t][i].objs = {}
      BY <2>3 DEF JobsInv
    <3> HIDE DEF a
    <3> QED
      BY SMTT(60), <3>2, <3>3
  <2> HIDE DEF a
  <2>4. /\ bio_jobs' \in [BioType -> Seq(Job)] /\ bio_pending' \in [BioType -> Int]
        /\ thread' \in [BioType -> ThreadState]
    BY <2>1, <2>2 DEF JobsInv
  <2>5. \A u \in BioType :
          QueueOK(bio_jobs'[u], bio_pending'[u], thread'[u], made'[u], ran'[u])
    BY <2>1, <2>2 DEF JobsInv
  <2>6. \A u \in BioType \ {LazyFree} :
          \A i \in DOMAIN bio_jobs'[u] : bio_jobs'[u][i].objs = {}
    BY SMTT(60), <2>2, <2>3 DEF JobsInv
  <2> QED
    BY SMTT(60), <2>2, <2>4, <2>5, <2>6 DEF JobsInv
<1> QED
  BY ZenonT(60), <1>1, <1>2, <1>3, <1>4, <1>5, <1>6, <1>7, <1>8, <1>9, <1>10, <1>11 DEF BioNext, BioThread

\* Jobs run once each and in the order they were created, and no thread sleeps
\* while a job is in its queue (bioCreateBackgroundJob, bioProcessBackgroundJobs).
THEOREM JobsInOrder == BioSpec => []JobsExact
<1>1. JobsInv => JobsExact
  BY DEF JobsInv, JobsExact, QueueOK
<1> QED
  BY <1>1, JobsInit, JobsNext, PTL DEF BioSpec
-----------------------------------------------------------------------------
\* The places of a queue whose job has not run, as Unrun.
Left(q, th) == {i \in DOMAIN q : i # 1 \/ th # "done"}

\* What LazyExact says of the queue: the objects g not yet freed are those in the
\* hands of the main thread, mo, and those of the jobs left, with none in two places.
LazyOK(q, th, mo, g) ==
  /\ \A o \in g : o \in mo \/ \E i \in Left(q, th) : o \in q[i].objs
  /\ mo \subseteq g
  /\ \A i \in Left(q, th) :
       /\ q[i].objs \subseteq g
       /\ q[i].objs \cap mo = {}
       /\ \A j \in Left(q, th) : i # j => q[i].objs \cap q[j].objs = {}

\* Objects taken out of the tables come to the main thread's hands.
LEMMA LazyHandOver ==
  ASSUME NEW q, NEW th, NEW g, LazyOK(q, th, {}, g), NEW o, o \cap g = {}
  PROVE  LazyOK(q, th, o, g \cup o)
BY DEF LazyOK

\* The job created takes them from there.
LEMMA LazyCreate ==
  ASSUME NEW q \in Seq(Job), NEW th \in ThreadState, th = "done" => q # <<>>,
         NEW mo \in SUBSET Objects, NEW g, LazyOK(q, th, mo, g), NEW n \in Int
  PROVE  LazyOK(Append(q, [id |-> n, objs |-> mo]), IF th = "wait" THEN "test" ELSE th, {}, g)
<1> DEFINE j == [id |-> n, objs |-> mo]
           a == Append(q, j)
           h == IF th = "wait" THEN "test" ELSE th
           k == Len(q) + 1
<1>1. j \in Job /\ j.objs = mo
  BY DEF Job
<1> HIDE DEF j
<1>2. /\ Len(q) \in Nat /\ DOMAIN q = 1 .. Len(q) /\ DOMAIN a = 1 .. Len(q) + 1
      /\ \A i \in 1 .. Len(q) : a[i] = q[i]
      /\ a[Len(q) + 1] = j
  BY <1>1, AppendProperties
<1>3. th = "done" => Len(q) # 0
  BY EmptySeq
<1>4. (h = "done") <=> (th = "done")
  OBVIOUS
<1> HIDE DEF a, h
<1>5. /\ Left(a, h) = Left(q, th) \cup {k} /\ k \notin Left(q, th)
      /\ a[k].objs = mo /\ \A i \in Left(q, th) : a[i] = q[i]
  BY <1>1, <1>2, <1>3, <1>4 DEF Left
<1> HIDE DEF k
<1>6. LazyOK(a, h, {}, g)
  BY <1>5 DEF LazyOK
<1> QED
  BY <1>6 DEF a, h, j

\* The job that runs frees its objects, and no others.
LEMMA LazyProcess ==
  ASSUME NEW q \in Seq(Job), q # <<>>, NEW mo, NEW g, LazyOK(q, "job", mo, g)
  PROVE  /\ Head(q).objs \subseteq g
         /\ LazyOK(q, "done", mo, g \ Head(q).objs)
<1>1. Head(q) = q[1] /\ 1 \in DOMAIN q /\ DOMAIN q = 1 .. Len(q) /\ Len(q) \in Nat
  BY HeadTailProperties, EmptySeq
<1>2. Left(q, "job") = Left(q, "done") \cup {1} /\ 1 \notin Left(q, "done")
  BY <1>1 DEF Left
<1> QED
  BY <1>1, <1>2 DEF LazyOK

\* The node removed is of a job that ran, so that nothing changes hands.
LEMMA LazyRemove ==
  ASSUME NEW q \in Seq(Job), q # <<>>, NEW mo, NEW g, LazyOK(q, "done", mo, g),
         NEW h, h # "done"
  PROVE  LazyOK(Tail(q), h, mo, g)
<1> DEFINE a == Tail(q)
<1>1. /\ Len(q) \in Nat /\ DOMAIN q = 1 .. Len(q) /\ DOMAIN a = 1 .. Len(q) - 1
      /\ \A i \in 1 .. Len(q) - 1 : a[i] = q[i + 1]
  BY HeadTailProperties
<1> HIDE DEF a
<1>2. /\ \A i \in Left(a, h) : i \in Int /\ i + 1 \in Left(q, "done") /\ a[i] = q[i + 1]
      /\ \A i \in Left(q, "done") : i \in Int /\ i - 1 \in Left(a, h) /\ a[i - 1] = q[i]
  BY <1>1 DEF Left
<1>3. \A i, j \in Left(a, h) : i # j => i + 1 # j + 1
  BY <1>2
<1>4. \A o \in g : o \in mo \/ \E i \in Left(a, h) : o \in a[i].objs
  BY <1>2 DEF LazyOK
<1>5. \A i \in Left(a, h) :
       /\ a[i].objs \subseteq g
       /\ a[i].objs \cap mo = {}
       /\ \A j \in Left(a, h) : i # j => a[i].objs \cap a[j].objs = {}
  BY <1>2, <1>3 DEF LazyOK
<1> QED
  BY ZenonT(60), <1>4, <1>5 DEF LazyOK, a

\* What the tables hold has not been given away: a value and a key number are used
\* once, and both tables know only numbers below the next one.
TablesOK(vs, ks, n, g) ==
  /\ IsFiniteSet(vs) /\ IsFiniteSet(ks) /\ IsFiniteSet(g)
  /\ \A v \in vs : v.id < n /\ Value(v) \notin g
  /\ \A v, w \in vs : v.id = w.id => v = w
  /\ \A i \in ks : i < n /\ Slot(i) \notin g
  /\ \A o \in g : o \in Objects /\ o[2] < n

\* The inductive invariant of the objects given away.
LazyInv ==
  /\ lazyfree_objects = Cardinality(given)
  /\ TablesOK(values, slots, born, given)
  /\ LazyOK(bio_jobs[LazyFree], thread[LazyFree], main.objs, given)
  /\ main.at # "create" => main.objs = {}

\* The set of names of a finite set of values, or of keys, is finite.
LEMMA NamesFinite ==
  ASSUME NEW vs, IsFiniteSet(vs)
  PROVE  IsFiniteSet({Value(v) : v \in vs}) /\ IsFiniteSet({Slot(i) : i \in vs})
<1> DEFINE V == {Value(v) : v \in vs}
           K == {Slot(i) : i \in vs}
           f == [v \in vs |-> Value(v)]
           k == [i \in vs |-> Slot(i)]
<1>1. f \in Surjection(vs, V) /\ k \in Surjection(vs, K)
  BY DEF Surjection
<1> HIDE DEF V, K, f, k
<1>2. IsFiniteSet(V) /\ IsFiniteSet(K)
  BY <1>1, FS_Surjection
<1> QED
  BY <1>2 DEF V, K

\* Objects handed over are counted once each, as none of them was given before.
LEMMA Counted ==
  ASSUME NEW g, IsFiniteSet(g), NEW o, IsFiniteSet(o), o \cap g = {}
  PROVE  IsFiniteSet(g \cup o) /\ Cardinality(g \cup o) = Cardinality(g) + Cardinality(o)
<1>1. g \cap o = {}
  OBVIOUS
<1>2. Cardinality(g \cap o) = 0
  BY <1>1, FS_EmptySet
<1>3. Cardinality(g) \in Nat /\ Cardinality(o) \in Nat
  BY FS_CardinalityType
<1>4. /\ IsFiniteSet(g \cup o)
      /\ Cardinality(g \cup o) = Cardinality(g) + Cardinality(o) - Cardinality(g \cap o)
  BY FS_Union
<1> QED
  BY <1>2, <1>3, <1>4

\* HandOver moves objects that nobody else has to the main thread.
LEMMA LazyHand ==
  ASSUME JobsInv, LazyInv, main.at # "create",
         NEW o \in SUBSET Objects, IsFiniteSet(o), o \cap given = {},
         NEW f, HandOver(o, f),
         TablesOK(values', slots', born', given \cup o),
         UNCHANGED <<bio_jobs, thread>>
  PROVE  LazyInv'
<1>1. main.objs = {}
  BY DEF LazyInv
<1>2. LazyOK(bio_jobs[LazyFree], thread[LazyFree], o, given \cup o)
  BY <1>1, LazyHandOver DEF LazyInv
<1>3. Cardinality(given \cup o) = Cardinality(given) + Cardinality(o)
  BY Counted DEF LazyInv, TablesOK
<1>4. main'.at = "create" /\ main'.objs = o /\ given' = given \cup o
      /\ lazyfree_objects' = lazyfree_objects + Cardinality(o)
  BY DEF HandOver
<1> QED
  BY <1>2, <1>3, <1>4 DEF LazyInv

\* bioInit and an empty database: nothing has been given away.
LEMMA LazyInit == BioInit => LazyInv
<1> SUFFICES ASSUME BioInit PROVE LazyInv
  OBVIOUS
<1>1. IsFiniteSet({}) /\ Cardinality({}) = 0
  BY FS_EmptySet
<1>2. LazyOK(<<>>, "test", {}, {})
  BY EmptySeq DEF LazyOK, Left
<1>3. TablesOK({}, {}, 0, {})
  BY <1>1 DEF TablesOK
<1> QED
  BY <1>1, <1>2, <1>3, BioAssumption DEF BioInit, LazyInv, Idle

\* Every step keeps LazyInv.
LEMMA LazyNext == JobsInv /\ LazyInv /\ [BioNext]_bioVars => LazyInv'
<1> SUFFICES ASSUME JobsInv, LazyInv, [BioNext]_bioVars PROVE LazyInv'
  OBVIOUS
<1> USE BioAssumption
<1>1. CASE UNCHANGED bioVars
  BY <1>1 DEF LazyInv, bioVars
<1>2. ASSUME NEW e \in Effort, DbAdd(e) PROVE LazyInv'
  <2> DEFINE w == [id |-> born, effort |-> e]
  <2>0. w.id = born /\ born \in Nat
    BY DEF JobsInv
  <2>1. Value(w) \notin given /\ Slot(born) \notin given
    BY <2>0 DEF LazyInv, TablesOK, Value, Slot
  <2> HIDE DEF w
  <2>2. IsFiniteSet(values \cup {w}) /\ IsFiniteSet(slots \cup {born})
    BY SMTT(60), FS_AddElement DEF LazyInv, TablesOK
  <2>3. \A v \in values : v.id \in Nat /\ v.id < born
    BY DEF LazyInv, TablesOK, JobsInv
  <2>4. \A i \in slots : i \in Nat /\ i < born
    BY DEF LazyInv, TablesOK, JobsInv
  <2>5. \A o \in given : o \in Objects /\ o[2] \in Nat /\ o[2] < born
    BY DEF LazyInv, TablesOK, Objects
  <2>6. values' = values \cup {w} /\ slots' \in {slots, slots \cup {born}} /\ born' = born + 1
        /\ UNCHANGED <<bio_jobs, thread, lazyfree_objects, main, given>>
    BY <1>2 DEF DbAdd, w
  <2>7. \A v \in values' : v.id < born' /\ Value(v) \notin given
    BY SMTT(60), <2>0, <2>1, <2>3, <2>6 DEF LazyInv, TablesOK
  <2>8. \A i \in slots' : i < born' /\ Slot(i) \notin given
    BY <2>0, <2>1, <2>4, <2>6 DEF LazyInv, TablesOK
  <2>9. \A u, v \in values' : u.id = v.id => u = v
    BY <2>0, <2>3, <2>6 DEF LazyInv, TablesOK
  <2>10. \A o \in given : o \in Objects /\ o[2] < born'
    BY SMTT(60), <2>0, <2>5, <2>6
  <2>11. TablesOK(values', slots', born', given')
    BY ZenonT(60), <2>2, <2>6, <2>7, <2>8, <2>9, <2>10 DEF LazyInv, TablesOK
  <2> QED
    BY <2>6, <2>11 DEF LazyInv
<1>3. ASSUME EmptyDbAsync PROVE LazyInv'
  <2> DEFINE o == {Value(v) : v \in values}
  <2>1. o \in SUBSET Objects /\ o \cap given = {} /\ \A x \in o : x[2] < born /\ x[1] = "value"
    BY DEF Value, Objects, JobsInv, LazyInv, TablesOK
  <2>2. IsFiniteSet(o) /\ IsFiniteSet(given \cup o) /\ IsFiniteSet({})
    BY ZenonT(60), NamesFinite, FS_Union, FS_EmptySet DEF LazyInv, TablesOK
  <2>3. main.at # "create" /\ values' = {} /\ UNCHANGED <<bio_jobs, thread, slots, born>>
        /\ HandOver(o, Clustered)
    BY <1>3 DEF EmptyDbAsync
  <2> HIDE DEF o
  <2>4. \A i \in slots : Slot(i) \notin o
    BY ZenonT(60), <2>1 DEF Slot
  <2>5. TablesOK(values', slots', born', given \cup o)
    BY <2>1, <2>2, <2>3, <2>4 DEF LazyInv, TablesOK
  <2> QED
    BY ZenonT(60), <2>1, <2>2, <2>3, <2>5, LazyHand
<1>4. ASSUME NEW v \in values, DbAsyncDelete(v) PROVE LazyInv'
  <2> DEFINE o == {Value(v)}
  <2>1. o \in SUBSET Objects /\ o \cap given = {} /\ \A x \in o : x[2] < born /\ x = Value(v)
    BY DEF Value, Objects, JobsInv, LazyInv, TablesOK
  <2>2. IsFiniteSet(o) /\ IsFiniteSet(given \cup o)
        /\ IsFiniteSet(values \ {v}) /\ IsFiniteSet(slots \ {v.id})
    BY ZenonT(60), FS_Singleton, FS_Union, FS_RemoveElement DEF LazyInv, TablesOK
  <2>3. /\ main.at # "create" /\ values' = values \ {v} /\ slots' = slots \ {v.id}
        /\ UNCHANGED <<bio_jobs, thread, born>>
        /\ HandOver(o, FALSE) \/ UNCHANGED <<lazyfree_objects, given, main>>
    BY ZenonT(60), <1>4 DEF DbAsyncDelete
  <2>4. \A w \in values \ {v} : Value(w) # Value(v)
    BY DEF Value, LazyInv, TablesOK
  <2>5. \A i \in slots : Slot(i) # Value(v)
    BY ZenonT(60) DEF Slot, Value
  <2> HIDE DEF o
  <2>6. TablesOK(values', slots', born', given \cup o) /\ TablesOK(values', slots', born', given)
    BY <2>1, <2>2, <2>3, <2>4, <2>5 DEF LazyInv, TablesOK
  <2>7. CASE HandOver(o, FALSE)
    BY ZenonT(60), <2>1, <2>2, <2>3, <2>6, <2>7, LazyHand
  <2>8. CASE UNCHANGED <<lazyfree_objects, given, main>>
    BY <2>3, <2>6, <2>8 DEF LazyInv
  <2> QED
    BY ZenonT(60), <2>3, <2>7, <2>8
<1>5. ASSUME SlotToKeyFlushAsync PROVE LazyInv'
  <2> DEFINE o == {Slot(i) : i \in slots}
  <2>1. o \in SUBSET Objects /\ o \cap given = {} /\ \A x \in o : x[2] < born /\ x[1] = "slot"
    BY DEF Slot, Objects, JobsInv, LazyInv, TablesOK
  <2>2. IsFiniteSet(o) /\ IsFiniteSet(given \cup o) /\ IsFiniteSet({})
    BY ZenonT(60), NamesFinite, FS_Union, FS_EmptySet DEF LazyInv, TablesOK
  <2>3. main.at # "create" /\ slots' = {} /\ UNCHANGED <<bio_jobs, thread, values, born>>
        /\ HandOver(o, FALSE)
    BY ZenonT(60), <1>5 DEF SlotToKeyFlushAsync
  <2> HIDE DEF o
  <2>4. \A v \in values : Value(v) \notin o
    BY <2>1 DEF Value
  <2>5. TablesOK(values', slots', born', given \cup o)
    BY <2>1, <2>2, <2>3, <2>4 DEF LazyInv, TablesOK
  <2> QED
    BY ZenonT(60), <2>1, <2>2, <2>3, <2>5, LazyHand
<1>6. ASSUME EvictWait \/ EvictDone \/ EvictEnough \/ \E t \in BioType : OtherJob(t)
      PROVE  LazyInv'
  <2>1. /\ main.at # "create" /\ main'.objs = {}
        /\ UNCHANGED <<bio_jobs, thread, lazyfree_objects, values, slots, born, given>>
    BY <1>6 DEF EvictWait, EvictDone, EvictEnough, OtherJob, mainVars, Idle
  <2> QED
    BY <2>1 DEF LazyInv
<1>7. ASSUME NEW t \in BioType, BioCreateBackgroundJob(t) PROVE LazyInv'
  <2> DEFINE L == LazyFree
             a == Append(bio_jobs[L], [id |-> made[L] + 1, objs |-> main.objs])
             h == IF thread[L] = "wait" THEN "test" ELSE thread[L]
  <2>1. main.type = t /\ main'.objs = {} /\ main.objs \in SUBSET Objects
        /\ UNCHANGED <<lazyfree_objects, values, slots, born, given>>
    BY <1>7 DEF BioCreateBackgroundJob, mainVars, Idle, JobsInv, MainState
  <2>2. CASE t = LazyFree
    <3>1. LazyOK(a, h, {}, given)
      <4>1. bio_jobs[L] \in Seq(Job) /\ thread[L] \in ThreadState /\ made[L] + 1 \in Int
            /\ (thread[L] = "done" => bio_jobs[L] # <<>>)
        BY DEF JobsInv, QueueOK
      <4>2. LazyOK(bio_jobs[L], thread[L], main.objs, given)
        BY DEF LazyInv
      <4> QED
        BY <2>1, <4>1, <4>2, LazyCreate
    <3>2. bio_jobs'[L] = a /\ thread'[L] = h
      BY <1>7, <2>2 DEF BioCreateBackgroundJob, JobsInv
    <3> HIDE DEF a, h
    <3> QED
      BY <2>1, <3>1, <3>2 DEF LazyInv
  <2>3. CASE t # LazyFree
    <3>1. bio_jobs'[L] = bio_jobs[L] /\ thread'[L] = thread[L] /\ main.objs = {}
      BY ZenonT(60), <1>7, <2>1, <2>3 DEF BioCreateBackgroundJob, JobsInv
    <3> QED
      BY <2>1, <3>1 DEF LazyInv
  <2> QED
    BY <2>2, <2>3
<1>8. ASSUME NEW t \in BioType, BioWake(t) \/ BioTest(t) PROVE LazyInv'
  <2>1. /\ UNCHANGED <<bio_jobs, lazyfree_objects, main, values, slots, born, given>>
        /\ \/ thread[LazyFree] # "done" /\ thread'[LazyFree] # "done"
           \/ thread'[LazyFree] = thread[LazyFree]
    BY <1>8 DEF BioWake, BioTest, LoopTop, mainVars, JobsInv
  <2>2. Left(bio_jobs'[LazyFree], thread'[LazyFree]) = Left(bio_jobs[LazyFree], thread[LazyFree])
    BY ZenonT(60), <2>1 DEF Left
  <2> QED
    BY <2>1, <2>2 DEF LazyInv, LazyOK
<1>9. ASSUME NEW t \in BioType, BioProcess(t) PROVE LazyInv'
  <2> DEFINE o == Head(bio_jobs[t]).objs
  <2>1. /\ UNCHANGED <<bio_jobs, main, values, slots, born>>
        /\ thread' = [thread EXCEPT ![t] = "done"]
        /\ given' = given \ o /\ lazyfree_objects' = lazyfree_objects - Cardinality(o)
        /\ thread[t] = "job" /\ bio_jobs[t] # <<>> /\ bio_jobs[t] \in Seq(Job)
    BY ZenonT(60), <1>9 DEF BioProcess, mainVars, JobsInv, QueueOK
  <2>2. CASE t = LazyFree
    <3>1. o \subseteq given /\ LazyOK(bio_jobs[t], "done", main.objs, given \ o)
      <4>1. LazyOK(bio_jobs[t], "job", main.objs, given)
        BY <2>1, <2>2 DEF LazyInv
      <4> QED
        BY ZenonT(60), <2>1, <4>1, LazyProcess
    <3>2. thread'[LazyFree] = "done"
      BY <2>1, <2>2 DEF JobsInv
    <3> HIDE DEF o
    <3>3. given \cap o = o
      BY <3>1
    <3>4. IsFiniteSet(given \ o) /\ Cardinality(given \ o) = Cardinality(given) - Cardinality(o)
      BY ZenonT(60), <3>3, FS_Difference DEF LazyInv, TablesOK
    <3>5. TablesOK(values', slots', born', given')
      BY <2>1, <3>4 DEF LazyInv, TablesOK
    <3> QED
      BY <2>1, <2>2, <3>1, <3>2, <3>4, <3>5 DEF LazyInv
  <2>3. CASE t # LazyFree
    <3>1. o = {}
      <4>1. Head(bio_jobs[t]) = bio_jobs[t][1] /\ 1 \in DOMAIN bio_jobs[t]
        BY SMTT(60), <2>1, HeadTailProperties, EmptySeq
      <4> QED
        BY <2>3, <4>1 DEF JobsInv
    <3>2. thread'[LazyFree] = thread[LazyFree]
      BY ZenonT(60), <2>1, <2>3 DEF JobsInv
    <3> HIDE DEF o
    <3>3. Cardinality(o) = 0 /\ Cardinality(given) \in Nat /\ given' = given
      BY ZenonT(60), <2>1, <3>1, FS_EmptySet, FS_CardinalityType DEF LazyInv, TablesOK
    <3>4. lazyfree_objects' = lazyfree_objects
      BY SMTT(60), <2>1, <3>3 DEF LazyInv
    <3> QED
      BY ZenonT(60), <2>1, <3>2, <3>3, <3>4 DEF LazyInv
  <2> QED
    BY <2>2, <2>3
<1>10. ASSUME NEW t \in BioType, BioRemove(t) PROVE LazyInv'
  <2>1. /\ UNCHANGED <<lazyfree_objects, main, values, slots, born, given>>
        /\ thread[t] = "done" /\ bio_jobs[t] # <<>> /\ bio_jobs[t] \in Seq(Job)
    BY ZenonT(60), <1>10 DEF BioRemove, mainVars, JobsInv, QueueOK
  <2>2. CASE t = LazyFree
    <3>1. bio_jobs'[t] = Tail(bio_jobs[t]) /\ thread'[t] # "done"
      BY ZenonT(60), <1>10 DEF BioRemove, JobsInv, LoopTop
    <3>2. LazyOK(Tail(bio_jobs[t]), thread'[t], main.objs, given)
      BY ZenonT(60), <2>1, <2>2, <3>1, LazyRemove DEF LazyInv
    <3> QED
      BY ZenonT(60), <2>1, <2>2, <3>1, <3>2 DEF LazyInv
  <2>3. CASE t # LazyFree
    <3>1. bio_jobs'[LazyFree] = bio_jobs[LazyFree] /\ thread'[LazyFree] = thread[LazyFree]
      BY <1>10, <2>3 DEF BioRemove, JobsInv
    <3> QED
      BY ZenonT(60), <2>1, <3>1 DEF LazyInv
  <2> QED
    BY <2>2, <2>3
<1> QED
  BY <1>1, <1>2, <1>3, <1>4, <1>5, <1>6, <1>7, <1>8, <1>9, <1>10 DEF BioNext, BioThread

\* Each object taken out of the tables is in exactly one place until it is freed,
\* no table still has it, and lazyfree_objects counts these objects exactly
\* (dbAsyncDelete, emptyDbAsync, slotToKeyFlushAsync, the FromBioThread functions).
THEOREM LazyFreeExact == BioSpec => []LazyExact
<1>1. LazyInv => LazyExact
  <2> SUFFICES ASSUME LazyInv PROVE LazyExact
    OBVIOUS
  <2>1. Unrun(LazyFree) = Left(bio_jobs[LazyFree], thread[LazyFree])
    BY ZenonT(60) DEF Unrun, Left
  <2>2. given = main.objs \cup UNION {bio_jobs[LazyFree][i].objs : i \in Unrun(LazyFree)}
    BY SMTT(60), <2>1 DEF LazyInv, LazyOK
  <2> QED
    BY <2>1, <2>2 DEF LazyExact, LazyInv, LazyOK, TablesOK
<1> QED
  BY <1>1, JobsInit, JobsNext, LazyInit, LazyNext, PTL DEF BioSpec
=============================================================================

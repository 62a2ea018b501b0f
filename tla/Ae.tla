--------------------------------- MODULE Ae ---------------------------------
(* The event loop (ae.c): files that are watched for reading and writing,    *)
(* timers, and the loop that sleeps, calls the handlers of what fired, and   *)
(* runs the timers that are due. A handler may call the loop's own functions *)
(* while the loop is in the middle of its lists: each handler makes one such *)
(* call, or none.                                                            *)
EXTENDS Integers, Sequences, FiniteSets, SequencesExt

CONSTANTS
  Delay,      \* delays of timers, in ms
  Sec,        \* ms in a second
  MaxNow,     \* later than any clock
  AeScenarios \* what a behaviour has: the sizes that the set may have, the
              \* handlers of files, and bounds on the timers ever created,
              \* the clock, and how often it is set back

VARIABLES
  aescen,     \* the scenario
  ae,         \* the aeEventLoop: files and timers
  at,         \* where aeProcessEvents is: call, sleep, read, write or time
  until,      \* when the sleep ends, Never if only by a file
  fired,      \* eventLoop->fired from the current entry on
  rfired,     \* the read handler was called for this entry
  te,         \* the place of the timer to look at next
  maxId,      \* the newest timer when the pass began
  clock,      \* gettimeofday, and how often it was set back
  pass        \* this pass: the timers it ran and whether it saw the clock go back

aeVars == <<aescen, ae, at, until, fired, rfired, te, maxId, clock, pass>>

RD == "readable"
WR == "writable"
Deleted == -1   \* AE_DELETED_EVENT_ID
NoMore == -1    \* AE_NOMORE
Never == MaxNow

(* The list of timers has its head at the end of the sequence, so that the   *)
(* place of a timer does not change when others are put in front.            *)
AeInit ==
  /\ aescen \in AeScenarios
  /\ ae = [mask |-> [fd \in 0..(Min(aescen.sizes) - 1) |-> {}], rproc |-> <<>>, wproc |-> <<>>,
           maxfd |-> -1, timers |-> <<>>, nextId |-> 0, freed |-> {}, lastTime |-> 1]
  /\ at = "call" /\ until = Never /\ fired = <<>> /\ rfired = FALSE
  /\ te = 0 /\ maxId = -1
  /\ clock = [now |-> Sec, back |-> 0]
  /\ pass = [ran |-> <<>>, back |-> FALSE]

SetSize(l) == Cardinality(DOMAIN l.mask)

-----------------------------------------------------------------------------
(* The functions that handlers call                                          *)

MaxRegistered(mask) == Max({-1} \cup {fd \in DOMAIN mask : mask[fd] # {}})

AeCreateFileEvent(l, fd, m, h) ==
  IF fd >= SetSize(l) THEN l
  ELSE [l EXCEPT !.mask[fd] = @ \cup m,
                 !.rproc = IF RD \in m THEN (fd :> h) @@ @ ELSE @,
                 !.wproc = IF WR \in m THEN (fd :> h) @@ @ ELSE @,
                 !.maxfd = Max({@, fd})]

(* maxfd is looked for only when the highest file goes.                      *)
AeDeleteFileEvent(l, fd, m) ==
  IF fd >= SetSize(l) \/ l.mask[fd] = {} THEN l
  ELSE LET mask == [l.mask EXCEPT ![fd] = @ \ m]
       IN  [l EXCEPT !.mask = mask,
                     !.maxfd = IF fd = @ /\ mask[fd] = {} THEN MaxRegistered(mask) ELSE @]

(* aeResizeSetSize, which is refused below a file in use.                    *)
AeResizeSetSize(l, n) ==
  IF n = SetSize(l) \/ l.maxfd >= n THEN l
  ELSE [l EXCEPT !.mask = [fd \in 0..(n - 1) |-> IF fd <= l.maxfd THEN l.mask[fd] ELSE {}]]

AeCreateTimeEvent(l, ms, now) ==
  [l EXCEPT !.timers = Append(@, [id |-> l.nextId, when |-> now + ms, key |-> l.nextId]),
            !.nextId = @ + 1]

(* Only marked: the list may be walked just now.                             *)
AeDeleteTimeEvent(l, id) ==
  [l EXCEPT !.timers = [i \in DOMAIN @ |-> IF @[i].id = id THEN [@[i] EXCEPT !.id = Deleted]
                                           ELSE @[i]]]

(* What a handler may have done when it returns. The server only ever makes  *)
(* its set larger (CONFIG SET maxclients).                                   *)
Masks == {{RD}, {WR}, {RD, WR}}
Fds == 0..(Max(aescen.sizes) - 1)
Effects(l, now) ==
  {l}
  \cup {AeCreateFileEvent(l, fd, m, h) : fd \in Fds, m \in Masks, h \in aescen.handlers}
  \cup {AeDeleteFileEvent(l, fd, m) : fd \in Fds, m \in Masks}
  \cup {AeResizeSetSize(l, n) : n \in {x \in aescen.sizes : x > SetSize(l)}}
  \cup {AeCreateTimeEvent(l, ms, now) : ms \in {d \in Delay : l.nextId < aescen.timers}}
  \cup {AeDeleteTimeEvent(l, id) : id \in 0..(l.nextId - 1)}

-----------------------------------------------------------------------------
(* aeMain and aeProcessEvents                                                *)

AeSearchNearestTimer(l) == Min({l.timers[i].when : i \in DOMAIN l.timers})

(* beforesleep, and the time to sleep: until the nearest timer, also one     *)
(* that is marked deleted, or until a file fires.                            *)
AeBeforeSleep ==
  /\ at = "call"
  /\ \E l \in Effects(ae, clock.now) :
       /\ ae' = l
       /\ until' = IF l.timers = <<>> THEN Never ELSE Max({clock.now, AeSearchNearestTimer(l)})
  /\ at' = "sleep"
  /\ UNCHANGED <<aescen, fired, rfired, te, maxId, clock, pass>>

(* aeApiPoll over epoll reports files that are watched, in any order, for    *)
(* what is watched; an error or a closed connection is reported as writable  *)
(* whether or not that is watched. With none the time is over; a wait ended  *)
(* by a signal is left out, after which the loop only starts over.           *)
AeApiPoll ==
  /\ at = "sleep"
  /\ \E S \in SUBSET {fd \in DOMAIN ae.mask : ae.mask[fd] # {}} :
       /\ S = {} => clock.now >= until
       /\ \E order \in SetToSeqs(S), m \in [S -> Masks] :
            /\ \A fd \in S : m[fd] \subseteq ae.mask[fd] \cup {WR}
            /\ fired' = [i \in DOMAIN order |-> [fd |-> order[i], mask |-> m[order[i]]]]
  /\ at' = "read" /\ rfired' = FALSE
  /\ UNCHANGED <<aescen, ae, until, te, maxId, clock, pass>>

(* An earlier handler may have removed what fired: the mask is looked at     *)
(* again. One handler for both is called once.                               *)
ReadEvent ==
  /\ at = "read" /\ fired # <<>>
  /\ LET e == Head(fired)
         call == RD \in ae.mask[e.fd] \cap e.mask
     IN  /\ ae' \in IF call THEN Effects(ae, clock.now) ELSE {ae}
         /\ rfired' = call
  /\ at' = "write"
  /\ UNCHANGED <<aescen, until, fired, te, maxId, clock, pass>>

WriteEvent ==
  /\ at = "write"
  /\ LET e == Head(fired)
         call == /\ WR \in ae.mask[e.fd] \cap e.mask
                 /\ ~rfired \/ ae.wproc[e.fd] # ae.rproc[e.fd]
     IN  ae' \in IF call THEN Effects(ae, clock.now) ELSE {ae}
  /\ at' = "read" /\ fired' = Tail(fired) /\ rfired' = FALSE
  /\ UNCHANGED <<aescen, until, te, maxId, clock, pass>>

(* processTimeEvents: when the clock went back by a second every timer is    *)
(* made due at once.                                                         *)
TimeBegin ==
  /\ at = "read" /\ fired = <<>>
  /\ LET now == clock.now \div Sec
         back == now < ae.lastTime
     IN  /\ ae' = [ae EXCEPT !.lastTime = now,
                       !.timers = [i \in DOMAIN @ |->
                          IF back THEN [@[i] EXCEPT !.when = @ % Sec] ELSE @[i]]]
         /\ pass' = [ran |-> <<>>, back |-> back]
  /\ at' = "time" /\ te' = Len(ae.timers) /\ maxId' = ae.nextId - 1
  /\ UNCHANGED <<aescen, until, fired, rfired, clock>>

TimerFree ==
  /\ at = "time" /\ te > 0 /\ ae.timers[te].id = Deleted
  /\ ae' = [ae EXCEPT !.timers = RemoveAt(@, te), !.freed = @ \cup {ae.timers[te].key}]
  /\ te' = te - 1
  /\ UNCHANGED <<aescen, at, until, fired, rfired, maxId, clock, pass>>

TimerSkip ==
  /\ at = "time" /\ te > 0
  /\ \/ ae.timers[te].id > maxId
     \/ ae.timers[te].id # Deleted /\ clock.now < ae.timers[te].when
  /\ te' = te - 1
  /\ UNCHANGED <<aescen, ae, at, until, fired, rfired, maxId, clock, pass>>

(* timeProc answers when to be called again, or that it is not to be.        *)
TimerRun ==
  /\ at = "time" /\ te > 0
  /\ ae.timers[te].id \in 0..maxId /\ clock.now >= ae.timers[te].when
  /\ \E l \in Effects(ae, clock.now), retval \in Delay \cup {NoMore} :
       ae' = IF retval = NoMore THEN [l EXCEPT !.timers[te].id = Deleted]
               ELSE [l EXCEPT !.timers[te].when = clock.now + retval]
  /\ pass' = [pass EXCEPT !.ran = Append(@, ae.timers[te].key)]
  /\ te' = te - 1
  /\ UNCHANGED <<aescen, at, until, fired, rfired, maxId, clock>>

TimeEnd ==
  /\ at = "time" /\ te = 0
  /\ at' = "call"
  /\ UNCHANGED <<aescen, ae, until, fired, rfired, te, maxId, clock, pass>>

(* Time passes; somebody sets the clock back.                                *)
Tick ==
  /\ clock.now < aescen.end
  /\ clock' = [clock EXCEPT !.now = @ + 1]
  /\ UNCHANGED <<aescen, ae, at, until, fired, rfired, te, maxId, pass>>

ClockBack ==
  /\ clock.back < aescen.back /\ clock.now >= 2 * Sec
  /\ clock' = [now |-> clock.now - Sec, back |-> clock.back + 1]
  /\ UNCHANGED <<aescen, ae, at, until, fired, rfired, te, maxId, pass>>

AeLoop == AeBeforeSleep \/ AeApiPoll \/ ReadEvent \/ WriteEvent \/ TimeBegin
          \/ TimerFree \/ TimerSkip \/ TimerRun \/ TimeEnd

(* A step that does not wait for a file to fire.                             *)
AeGoes == (at = "sleep" => clock.now >= until) /\ AeLoop

AeNext == AeLoop \/ Tick \/ ClockBack

-----------------------------------------------------------------------------
\* maxfd is the highest file that is watched, whatever order files come and go
\* in, and what is left of the fired list stays inside the set while handlers
\* change it (aeCreateFileEvent, aeDeleteFileEvent, aeResizeSetSize).
FilesExact ==
  /\ ae.maxfd = MaxRegistered(ae.mask)
  /\ \A i \in DOMAIN fired : fired[i].fd \in DOMAIN ae.mask

\* A pass runs a timer at most once and none that was created during it, and a
\* pass that saw the clock go back leaves no older timer out; a timer is freed
\* once, after it was deleted, and never while the pass may still look at it
\* (processTimeEvents, aeDeleteTimeEvent).
TimersExact ==
  /\ \A i, j \in DOMAIN pass.ran : pass.ran[i] = pass.ran[j] => i = j
  /\ \A i \in DOMAIN pass.ran : pass.ran[i] <= maxId
  /\ at = "time" =>
       /\ te <= Len(ae.timers)
       /\ \A i \in (te + 1)..Len(ae.timers) :
            pass.back /\ ae.timers[i].id \in 0..maxId =>
              ae.timers[i].id \in ToSet(pass.ran)
  /\ \A i, j \in DOMAIN ae.timers : ae.timers[i].key = ae.timers[j].key => i = j
  /\ {ae.timers[i].key : i \in DOMAIN ae.timers} = (0..(ae.nextId - 1)) \ ae.freed

\* The loop does not sleep past a timer that was there when it went to sleep
\* (aeSearchNearestTimer, aeProcessEvents).
NoOversleep ==
  at = "sleep" => \A i \in DOMAIN ae.timers :
                    until <= Max({ae.timers[i].when, clock.now}) \/ clock.back > 0

\* Every timer that comes due is run or deleted, also when the clock is set back
\* while it waits: there is always again a pass that leaves none out.
TimersRun ==
  []<>(\A i \in DOMAIN ae.timers :
         \/ ae.timers[i].id \in ToSet(pass.ran) \cup {Deleted}
         \/ ae.timers[i].when > aescen.end)
=============================================================================

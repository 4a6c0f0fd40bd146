----------------------------- MODULE Scheduler -----------------------------
(***************************************************************************)
(* The command scheduler of os_scheduler.c: a table of jobs, one FreeRTOS  *)
(* software timer per job, a queue of pointers to jobs, and a worker task  *)
(* that runs the command of the job each pointer designates.               *)
(*                                                                         *)
(* Actors: shell sessions (schedule, cancel), the FreeRTOS timer task (the *)
(* callback, and the deferred execution of stop and delete commands), the  *)
(* worker.  A pointer to a job is the index of its slot.  Each critical    *)
(* section under s_sched.lock is one action; the worker uses its pointer   *)
(* before and after a command without holding the lock in between.         *)
(*                                                                         *)
(* The shell command "test sched" runs os_scheduler_deinit and _init while *)
(* other sessions work, or in the worker itself if it is the command of a  *)
(* job.  Deinit gives the lock before it deletes worker, queue and lock,   *)
(* and clears initialised last: until then calls are let in.               *)
(*                                                                         *)
(* Left out: fd, delay_ms (a timer may expire at any time after it was     *)
(* started) and fire_count, which only os_scheduler_list prints; two tests *)
(* of the scheduler at a time.  A schedule call whose xTimerCreate or      *)
(* xTimerStart fails leaves the table as it found it and is not an action; *)
(* nor is an init that runs out of memory.                                 *)
(***************************************************************************)
EXTENDS Integers, Sequences

CONSTANTS
    MaxJobs,    \* OS_SCHED_MAX_JOBS: slots of the table and of the queue
    Names,      \* job names callers use
    NoName,     \* the empty name of a cleared slot
    MaxIds,     \* bound: successful calls of os_scheduler_schedule
    Cap         \* bound: the history counters saturate here

ASSUME SchedulerAssumption ==
    /\ MaxJobs \in Nat \ {0}
    /\ MaxIds \in Nat
    /\ Cap \in Nat /\ Cap >= 2
    /\ NoName \notin Names

Slots == 1 .. MaxJobs

\* Every schedule call that succeeds gets an id: it names the job, its command
\* and its timer.  0 stands for none.
Ids == 1 .. MaxIds
Id0 == 0 .. MaxIds

VARIABLES
    up,         \* "down" or "up"; inside os_scheduler_deinit "stopping" when the
                \* table is cleared, "closing" when worker and queue are gone too
    workerTask, \* s_sched.worker_task: NULL, the worker, or a worker that is gone
    jobs,       \* s_sched.jobs
    timer,      \* FreeRTOS: state of the timer of each id
    tslot,      \* FreeRTOS: timer ID, the job pointer the timer was created with
    queue,      \* s_sched.queue
    worker,     \* the worker: the pointer it holds and the id whose command it runs
    nextId,     \* history: ids used so far
    fired,      \* history: expirations of each id's timer
    started,    \* history: times each id's command was started
    cancelled,  \* history: ids cleared by cancel or deinit
    dropped,    \* history: one-shot ids whose expiration found the queue full
    repeats,    \* history: ids scheduled with repeat
    stale,      \* history: was a slot cleared while a pointer to it was in use
    late        \* history: ids accepted after deinit had cleared the table

vars == <<up, workerTask, jobs, timer, tslot, queue, worker, nextId, fired, started,
          cancelled, dropped, repeats, stale, late>>

Job == [id : Id0, name : Names \cup {NoName}, repeat : BOOLEAN,
        running : BOOLEAN, completed : BOOLEAN, timer : Id0]

\* A slot after memset.
Cleared == [id |-> 0, name |-> NoName, repeat |-> FALSE,
            running |-> FALSE, completed |-> FALSE, timer |-> 0]

\* "doomed": stopped and deleted by the API, but the timer task has not yet
\* executed these commands, so the timer can still expire.
TimerStates == {"none", "armed", "dormant", "doomed"}

Idle == [slot |-> 0, id |-> 0]

TypeOK ==
    /\ up \in {"down", "up", "stopping", "closing"}
    /\ workerTask \in {"null", "worker", "gone"}
    /\ jobs \in [Slots -> Job]
    /\ timer \in [Ids -> TimerStates]
    /\ tslot \in [Ids -> 0 .. MaxJobs]
    /\ queue \in Seq(Slots) /\ Len(queue) <= MaxJobs
    /\ worker \in [slot : 0 .. MaxJobs, id : Id0]
    /\ nextId \in 0 .. MaxIds
    /\ fired \in [Ids -> 0 .. Cap]
    /\ started \in [Ids -> 0 .. Cap]
    /\ cancelled \in SUBSET Ids
    /\ dropped \in SUBSET Ids
    /\ repeats \in SUBSET Ids
    /\ stale \in BOOLEAN
    /\ late \in SUBSET Ids

Zeros == [i \in Ids |-> 0]

\* A pointer may lead to another job than the one it was posted for, or a timer may be
\* out of reach.
Broken == stale \/ late # {}

\* The counts are kept until then; no property is about them afterwards.
Counts(f, s) ==
    /\ fired' = IF Broken' THEN Zeros ELSE f
    /\ started' = IF Broken' THEN Zeros ELSE s

\* A timer that is deleted takes its ID along.
TslotKept == [i \in Ids |-> IF timer'[i] = "none" THEN 0 ELSE tslot[i]]

Saturated(n) == IF n < Cap THEN n + 1 ELSE n

-----------------------------------------------------------------------------
Init ==
    /\ up = "down" /\ workerTask = "null"
    /\ jobs = [s \in Slots |-> Cleared]
    /\ timer = [i \in Ids |-> "none"]
    /\ tslot = [i \in Ids |-> 0]
    /\ queue = <<>>
    /\ worker = Idle
    /\ nextId = 0
    /\ fired = Zeros /\ started = Zeros
    /\ cancelled = {}
    /\ dropped = {}
    /\ repeats = {}
    /\ stale = FALSE
    /\ late = {}

\* os_scheduler_init: a new lock, queue and worker, all jobs cleared.
SchedulerInit ==
    /\ up = "down"
    /\ up' = "up" /\ workerTask' = "worker"
    /\ jobs' = [s \in Slots |-> Cleared]
    /\ queue' = <<>>
    /\ worker' = Idle
    /\ UNCHANGED <<timer, tslot, nextId, fired, started, cancelled, dropped, repeats, stale, late>>

\* A call that has found s_sched.initialised set gets the lock.  It may have done so
\* before os_scheduler_deinit began, or while it runs.
Enters == up \in {"up", "stopping", "closing"}

HasQueue == up \in {"up", "stopping"}

Occupied(s) == jobs[s].running \/ jobs[s].completed \/ jobs[s].timer # 0

\* find_free_slot_locked returns the first slot that is not occupied.
IsFreeSlot(s) == ~Occupied(s) /\ \A t \in Slots : t < s => Occupied(t)

\* find_job_locked returns the first occupied slot with this name.
IsJob(s, n) ==
    /\ Occupied(s) /\ jobs[s].name = n
    /\ \A t \in Slots : t < s => ~(Occupied(t) /\ jobs[t].name = n)

\* os_scheduler_schedule (at, every).
Schedule(n, rep) ==
    LET id == nextId + 1 IN
    /\ Enters
    /\ nextId < MaxIds
    /\ \A s \in Slots : ~IsJob(s, n)
    /\ \E s \in Slots :
         /\ IsFreeSlot(s)
         /\ jobs' = [jobs EXCEPT ![s] =
                       [id |-> id, name |-> n, repeat |-> rep,
                        running |-> TRUE, completed |-> FALSE, timer |-> id]]
         /\ tslot' = [tslot EXCEPT ![id] = s]
    /\ timer' = [timer EXCEPT ![id] = "armed"]
    /\ nextId' = id
    /\ repeats' = IF rep THEN repeats \cup {id} ELSE repeats
    /\ late' = IF up = "up" THEN late ELSE late \cup {id}
    /\ UNCHANGED <<up, workerTask, queue, worker, cancelled, dropped, stale>>
    /\ Counts(fired, started)

\* Is a pointer to slot s still queued or held by the worker?
Referenced(s) == worker.slot = s \/ \E k \in 1 .. Len(queue) : queue[k] = s

\* xTimerStop then xTimerDelete: both only queue a command for the timer task.
Stopped(i) == IF timer[i] = "armed" THEN "doomed" ELSE "none"

\* Mutant: only a job that is still running has its timer stopped and deleted.
Cancel_OnlyRunning(n) ==
    /\ Enters
    /\ \E s \in Slots :
         /\ IsJob(s, n)
         /\ timer' = IF jobs[s].running
                     THEN [timer EXCEPT ![jobs[s].timer] = Stopped(jobs[s].timer)]
                     ELSE timer
         /\ jobs' = [jobs EXCEPT ![s] = Cleared]
         /\ cancelled' = cancelled \cup ({jobs[s].id} \ {0})
         /\ stale' = (stale \/ Referenced(s))
    /\ tslot' = TslotKept
    /\ UNCHANGED <<up, workerTask, queue, worker, nextId, dropped, repeats, late>>
    /\ Counts(fired, started)

\* Mutant: the slot is marked free, but its command is not erased.
Cancel_NoMemset(n) ==
    /\ Enters
    /\ \E s \in Slots :
         /\ IsJob(s, n)
         /\ timer' = IF jobs[s].timer = 0 THEN timer
                     ELSE [timer EXCEPT ![jobs[s].timer] = Stopped(jobs[s].timer)]
         /\ jobs' = [jobs EXCEPT ![s] = [@ EXCEPT !.running = FALSE, !.completed = FALSE,
                                                  !.timer = 0]]
         /\ cancelled' = cancelled \cup ({jobs[s].id} \ {0})
         /\ stale' = (stale \/ Referenced(s))
    /\ tslot' = TslotKept
    /\ UNCHANGED <<up, workerTask, queue, worker, nextId, dropped, repeats, late>>
    /\ Counts(fired, started)

\* os_scheduler_cancel (killjob), from a session or from the worker's own command.
Cancel(n) ==
    /\ Enters
    /\ \E s \in Slots :
         /\ IsJob(s, n)
         /\ timer' = IF jobs[s].timer = 0 THEN timer
                     ELSE [timer EXCEPT ![jobs[s].timer] = Stopped(jobs[s].timer)]
         /\ jobs' = [jobs EXCEPT ![s] = Cleared]
         /\ cancelled' = cancelled \cup ({jobs[s].id} \ {0})
         /\ stale' = (stale \/ Referenced(s))
    /\ tslot' = TslotKept
    /\ UNCHANGED <<up, workerTask, queue, worker, nextId, dropped, repeats, late>>
    /\ Counts(fired, started)

\* os_scheduler_deinit, the part under the lock.
ClearsJobs ==
    /\ up = "up"
    /\ timer' = [i \in Ids |-> IF \E s \in Slots : jobs[s].timer = i
                               THEN Stopped(i) ELSE timer[i]]
    /\ jobs' = [s \in Slots |-> Cleared]
    /\ cancelled' = cancelled \cup ({jobs[s].id : s \in Slots} \ {0})
    /\ stale' = (stale \/ \E s \in Slots : Referenced(s))
    /\ tslot' = TslotKept
    /\ UNCHANGED <<queue, nextId, dropped, repeats, late>>
    /\ Counts(fired, started)

\* A session runs os_scheduler_deinit.
DeinitJobs ==
    /\ ClearsJobs
    /\ up' = "stopping"
    /\ UNCHANGED <<workerTask, worker>>

\* The worker is deleted, whatever it is doing, then the queue.
DeinitTeardown ==
    /\ up = "stopping"
    /\ up' = "closing" /\ workerTask' = "null"
    /\ worker' = Idle
    /\ queue' = <<>>
    /\ UNCHANGED <<jobs, timer, tslot, nextId, fired, started, cancelled, dropped, repeats,
                   stale, late>>

\* The lock is deleted and initialised cleared.
DeinitEnds ==
    /\ up = "closing"
    /\ up' = "down"
    /\ UNCHANGED <<workerTask, jobs, timer, tslot, queue, worker, nextId, fired, started,
                   cancelled, dropped, repeats, stale, late>>

\* The command that the worker runs calls os_scheduler_deinit: it clears the table and
\* deletes its own task.  Queue, lock and initialised stay, worker_task is not cleared.
WorkerDeinits ==
    /\ workerTask = "worker" /\ worker.id # 0
    /\ ClearsJobs
    /\ workerTask' = "gone"
    /\ worker' = Idle
    /\ UNCHANGED up

\* Inside os_scheduler_deinit: a worker that is gone is deleted once more, a timer posts to
\* the queue that was freed, or a call that has found initialised set takes the lock that
\* was freed or is NULL.  The system stops and restarts.
Panic ==
    /\ up \in {"stopping", "closing"}
    /\ up' = "down" /\ workerTask' = "null"
    /\ jobs' = [s \in Slots |-> Cleared]
    /\ timer' = [i \in Ids |-> "none"]
    /\ tslot' = [i \in Ids |-> 0]
    /\ queue' = <<>>
    /\ worker' = Idle
    /\ nextId' = 0
    /\ fired' = Zeros /\ started' = Zeros
    /\ cancelled' = {} /\ dropped' = {} /\ repeats' = {} /\ late' = {}
    /\ stale' = FALSE

-----------------------------------------------------------------------------
\* Timer task: the timer of i expires and its callback posts the job pointer to a
\* queue of the given length; a full queue drops it.  after[x] is the state a
\* timer in state x goes to.
Expires(i, length, after) ==
    /\ timer[i] \in {"armed", "doomed"}
    /\ timer' = [timer EXCEPT ![i] = after[@]]
    /\ IF ~HasQueue
       THEN UNCHANGED <<queue, dropped, stale>>
       ELSE /\ queue' = IF Len(queue) < length THEN Append(queue, tslot[i]) ELSE queue
            /\ dropped' = IF Len(queue) < length \/ i \in repeats THEN dropped
                          ELSE dropped \cup {i}
            /\ stale' = (stale \/ timer[i] = "doomed")
    /\ tslot' = TslotKept
    /\ UNCHANGED <<up, workerTask, jobs, worker, nextId, cancelled, repeats, late>>
    /\ Counts([fired EXCEPT ![i] = Saturated(@)], started)

OneShot == [armed |-> "dormant", doomed |-> "none"]
AutoReload == [armed |-> "armed", doomed |-> "doomed"]

\* Mutant: the queue is one pointer short.
TimerCallback_ShortQueue(i) ==
    Expires(i, MaxJobs - 1, IF i \in repeats THEN AutoReload ELSE OneShot)

\* Mutant: xQueueSendToFront.
TimerCallback_ToFront(i) ==
    /\ timer[i] \in {"armed", "doomed"}
    /\ timer' = [timer EXCEPT ![i] = IF i \in repeats THEN AutoReload[@] ELSE OneShot[@]]
    /\ fired' = [fired EXCEPT ![i] = Saturated(@)]
    /\ IF ~HasQueue \/ Len(queue) = MaxJobs
       THEN UNCHANGED <<queue, stale>>
       ELSE queue' = <<tslot[i]>> \o queue /\ stale' = (stale \/ timer[i] = "doomed")
    /\ UNCHANGED <<up, workerTask, jobs, tslot, worker, nextId, started, cancelled, dropped,
                   repeats, late>>

\* timer_callback, called by the timer task when the timer of job i expires.
TimerCallback(i) == Expires(i, MaxJobs, IF i \in repeats THEN AutoReload ELSE OneShot)

\* Timer task: the queued stop and delete commands are executed.
TimerDeleted(i) ==
    /\ timer[i] = "doomed"
    /\ timer' = [timer EXCEPT ![i] = "none"]
    /\ tslot' = TslotKept
    /\ UNCHANGED <<up, workerTask, jobs, queue, worker, nextId, fired, started,
                   cancelled, dropped, repeats, stale, late>>

\* worker_task: a pointer is received and the command in its slot is started.
\* The empty command of a cleared slot starts nothing.
WorkerStarts ==
    /\ workerTask = "worker" /\ worker.slot = 0 /\ queue # <<>>
    /\ UNCHANGED <<up, workerTask, jobs, timer, tslot, nextId, cancelled, dropped,
                   repeats, stale, late>>
    /\ LET s == Head(queue) IN
       /\ worker' = [slot |-> s, id |-> jobs[s].id]
       /\ Counts(fired, IF jobs[s].id = 0 THEN started
                        ELSE [started EXCEPT ![jobs[s].id] = Saturated(@)])
    /\ queue' = Tail(queue)


\* Mutant: running is not reset.
WorkerFinishes_StaysRunning ==
    /\ workerTask = "worker" /\ worker.slot # 0
    /\ jobs' = IF jobs[worker.slot].repeat THEN jobs
               ELSE [jobs EXCEPT ![worker.slot].completed = TRUE]
    /\ worker' = Idle
    /\ UNCHANGED <<up, workerTask, timer, tslot, queue, nextId, fired, started, cancelled,
                   dropped, repeats, stale, late>>

\* worker_task: the command has returned; under the lock the job is marked done
\* through the pointer, unless it repeats.
WorkerFinishes ==
    /\ workerTask = "worker" /\ worker.slot # 0
    /\ jobs' = IF jobs[worker.slot].repeat THEN jobs
               ELSE [jobs EXCEPT ![worker.slot].completed = TRUE,
                                 ![worker.slot].running = FALSE]
    /\ worker' = Idle
    /\ UNCHANGED <<up, workerTask, timer, tslot, queue, nextId, fired, started, cancelled,
                   dropped, repeats, stale, late>>

\* The shell commands; "at" and "every" make up the name of the job.
CmdAt      == \E n \in Names : Schedule(n, FALSE)
CmdEvery   == \E n \in Names : Schedule(n, TRUE)
CmdKilljob == \E n \in Names : Cancel(n)

Next ==
    \/ SchedulerInit
    \/ CmdAt \/ CmdEvery \/ CmdKilljob
    \/ DeinitJobs \/ DeinitTeardown \/ DeinitEnds
    \/ WorkerDeinits
    \/ Panic
    \/ \E i \in Ids : TimerCallback(i) \/ TimerDeleted(i)
    \/ WorkerStarts
    \/ WorkerFinishes

\* An armed timer expires when its period is over; the worker is a task that runs
\* whenever its queue is not empty, and its commands return.
Fairness ==
    /\ \A i \in Ids : WF_vars(TimerCallback(i))
    /\ WF_vars(WorkerStarts)
    /\ WF_vars(WorkerFinishes)

Spec == Init /\ [][Next]_vars /\ Fairness

-----------------------------------------------------------------------------
(* Properties *)

\* A slot's timer handle always names a timer that has not been stopped and will post
\* the pointer to that slot: no handle dangles, whatever calls overlap a deinit.  No two
\* occupied slots share a name a caller can use, so that cancel reaches the job that is
\* meant.  And no timer leaks out of the reach of cancel, unless a job was accepted
\* inside os_scheduler_deinit: the next init forgets its timer.
TimersOwned ==
    /\ TypeOK
    /\ \A s, t \in Slots :
         Occupied(s) /\ Occupied(t) /\ jobs[s].name = jobs[t].name /\ jobs[s].name # NoName
         => s = t
    /\ \A s \in Slots : jobs[s].timer # 0 =>
         timer[jobs[s].timer] \in {"armed", "dormant"} /\ tslot[jobs[s].timer] = s
    /\ late = {} =>
         \A i \in Ids : timer[i] \in {"armed", "dormant"} =>
            tslot[i] \in Slots /\ jobs[tslot[i]].timer = i

\* After a cancel has returned the cancelled command is never started again, even
\* if a pointer to its slot was queued or its timer still expires: what such a
\* pointer reaches is a cleared slot or a later job.
CancelledNeverStarts ==
    [][\A i \in cancelled : worker'.id = i => worker.id = i]_vars

\* As long as no slot is cleared under a pointer in use and no job is accepted inside
\* os_scheduler_deinit, a command starts only after its own timer expired, a one-shot
\* command at most once, and the job states that jobs prints are right: an occupied slot
\* has its timer, and it is "done" exactly when it is a one-shot whose command has been
\* run to its end.
JobStateSound ==
    ~Broken =>
        /\ \A i \in Ids : started[i] <= fired[i] /\ (i \notin repeats => fired[i] <= 1)
        /\ \A s \in Slots : Occupied(s) =>
             LET j == jobs[s] IN
             /\ j.timer # 0
             /\ j.running = ~j.completed
             /\ j.completed = (~j.repeat /\ started[j.id] = 1 /\ worker.slot # s)

\* The queue is as long as the table: however often slots are freed and used again,
\* one-shot jobs alone never fill it.  Only a repeating job, a stale pointer or a timer
\* of a job accepted inside os_scheduler_deinit makes an expiration get lost.
OnlyRepeatsOverflow == dropped # {} => repeats # {} \/ Broken


-----------------------------------------------------------------------------
(* The promise *)

Entry(s) == [id |-> jobs[s].id, name |-> jobs[s].name, repeat |-> jobs[s].repeat]
Listed   == {Entry(s) : s \in {t \in Slots : Occupied(t)}}
Waiting  == {i \in Ids : timer[i] = "armed"}
Winding  == {i \in Ids : timer[i] = "doomed"}
Due      == [k \in 1 .. Len(queue) |-> jobs[queue[k]].id]
Done     == {jobs[s].id : s \in {t \in Slots : jobs[t].completed}}

Board == INSTANCE JobBoard WITH
    Size <- MaxJobs, open <- up = "up", listed <- Listed, used <- 1 .. nextId,
    waiting <- Waiting, stopped <- Winding, due <- Due, running <- worker.id, done <- Done,
    broken <- Broken

\* The table, the timers, the queue of pointers into the table and the worker implement
\* the board of JobBoard: until a slot is cleared under a pointer in use or a job is
\* accepted inside os_scheduler_deinit, the job whose timer expired first starts first,
\* each pointer starts the job it was posted for, and one command runs at a time.
ImplementsBoard == Board!BoardSpec

=============================================================================

------------------------------- MODULE Timer -------------------------------
(***************************************************************************)
(* The software timers of os_timer.c: a table of named slots, each with a  *)
(* FreeRTOS timer.  Shell sessions and background commands look a slot up  *)
(* by name and then act on the pointer they got.                           *)
(*                                                                         *)
(* s_timer.lock protects the table, but os_timer_start, os_timer_stop and  *)
(* os_timer_restart test and use the handle without it, and take it only   *)
(* afterwards to store the new state; os_timer_delete tests the handle     *)
(* before it takes the lock.  Each access without the lock, and each       *)
(* critical section, is one action.                                        *)
(*                                                                         *)
(* FreeRTOS is external: xTimerStart, xTimerStop, xTimerChangePeriod and   *)
(* xTimerDelete only post a command to a queue of limited length that the  *)
(* timer task works off; posting for a NULL timer stops the system with a  *)
(* failed assertion, after which it restarts.  Left out: periods,          *)
(* fire_count and the user callback, which decide nothing, and             *)
(* os_timer_deinit, which only the tests call.                             *)
(*                                                                         *)
(* Names that other services have too begin with timer or Timer:           *)
(* ServiceProofs extends this module together with Mqtt and OTA.           *)
(***************************************************************************)
EXTENDS Integers, Sequences

CONSTANTS
    MaxTimers,      \* OS_TIMER_MAX_TIMERS
    QueueLength,    \* configTIMER_QUEUE_LENGTH
    Names,          \* names callers use
    Reloading,      \* the names callers create auto-reload timers for
    NoName,         \* the empty name of a cleared slot
    TimerCallers,   \* tasks that execute timer commands
    Nobody,         \* holder of a free lock
    MaxIds          \* number of addresses at which FreeRTOS can allocate timers

ASSUME TimerAssumption ==
    /\ MaxTimers \in Nat \ {0}
    /\ QueueLength \in Nat \ {0}
    /\ MaxIds \in Nat \ {0}
    /\ NoName \notin Names
    /\ Reloading \subseteq Names
    /\ Nobody \notin TimerCallers

Slots == 1 .. MaxTimers

Ids == 1 .. MaxIds

\* os_timer_restart differs from os_timer_start only in the period: "start" is both.
Ops == {"start", "stop", "delete"}

VARIABLES
    timers,     \* s_timer.timers
    lock,       \* holder of s_timer.lock between actions
    call,       \* what each caller is doing, with which slot and for which timer
    rtos,       \* FreeRTOS: state of the timer at each address
    timerId,    \* FreeRTOS: the slot each timer was created with
    auto,       \* FreeRTOS: the timers that reload themselves
    cmds,       \* FreeRTOS: commands the timer task has not yet executed
    timerOverlap    \* history: two calls for one slot have overlapped

rtosVars == <<rtos, timerId, auto>>
timerVars == <<timers, lock, call, rtosVars, cmds, timerOverlap>>

\* timer_obj_t: handle is 0 for NULL.
TimerObj == [handle : Ids \cup {0}, name : Names \cup {NoName},
             reload : BOOLEAN, active : BOOLEAN]

\* A slot after memset.
Cleared == [handle |-> 0, name |-> NoName, reload |-> FALSE, active |-> FALSE]

\* "checked": the handle was found to be set, "reread": it was read once more; id is
\* what the call has read.  "locked": os_timer_delete has the lock; "stopped": it has
\* posted the stop; "posted": the command was accepted.
Calls == [at : {"idle", "found", "checked", "reread", "locked", "stopped", "posted"},
          op : Ops, slot : Slots, id : Ids \cup {0}]

Idle == [at |-> "idle", op |-> "start", slot |-> 1, id |-> 0]

RtosStates == {"free", "dormant", "running"}

TimerTypeOK ==
    /\ timers \in [Slots -> TimerObj]
    /\ lock \in TimerCallers \cup {Nobody}
    /\ call \in [TimerCallers -> Calls]
    /\ rtos \in [Ids -> RtosStates]
    /\ timerId \in [Ids -> Slots \cup {0}]
    /\ auto \in SUBSET Ids
    /\ cmds \in Seq([op : Ops, id : Ids]) /\ Len(cmds) <= QueueLength
    /\ timerOverlap \in BOOLEAN

\* After os_timer_init.
TimerInit ==
    /\ timers = [s \in Slots |-> Cleared]
    /\ lock = Nobody
    /\ call = [c \in TimerCallers |-> Idle]
    /\ rtos = [i \in Ids |-> "free"]
    /\ timerId = [i \in Ids |-> 0]
    /\ auto = {}
    /\ cmds = <<>>
    /\ timerOverlap = FALSE

-----------------------------------------------------------------------------
\* find_slot: the first slot with neither a handle nor a name.
Unused(s) == timers[s].handle = 0 /\ timers[s].name = NoName
IsFindSlot(s) == Unused(s) /\ \A t \in Slots : t < s => ~Unused(t)

\* find_by_name_locked: the first slot with a handle and this name.
Named(s, n) == timers[s].handle # 0 /\ timers[s].name = n
IsFindByName(s, n) == Named(s, n) /\ \A t \in Slots : t < s => ~Named(t, n)

\* os_timer_create; the calls that return NULL leave everything as it was.
Create(c, n) ==
    /\ call[c].at = "idle" /\ lock = Nobody
    /\ \A s \in Slots : ~Named(s, n)
    /\ \E s \in Slots, i \in Ids :
         /\ IsFindSlot(s)
         /\ rtos[i] = "free"
         /\ timers' = [timers EXCEPT ![s] = [Cleared EXCEPT !.handle = i, !.name = n,
                                                           !.reload = (n \in Reloading)]]
         /\ rtos' = [rtos EXCEPT ![i] = "dormant"]
         /\ timerId' = [timerId EXCEPT ![i] = s]
         /\ auto' = IF n \in Reloading THEN auto \cup {i} ELSE auto
    /\ UNCHANGED <<lock, call, cmds, timerOverlap>>

\* os_timer_find, the first half of every command on an existing timer.
Find(c, n, op) ==
    /\ call[c].at = "idle" /\ lock = Nobody
    /\ \E s \in Slots :
         /\ IsFindByName(s, n)
         /\ call' = [call EXCEPT ![c] =
                     [at |-> "found", op |-> op, slot |-> s, id |-> 0]]
         /\ timerOverlap' = \/ timerOverlap
                            \/ \E d \in TimerCallers : call[d].at # "idle" /\ call[d].slot = s
    /\ UNCHANGED <<timers, lock, rtosVars, cmds>>

Handle(c) == timers[call[c].slot].handle

\* os_timer_start, _stop, _restart and _delete first test the handle, without the
\* lock; if it is NULL they return.
Check(c) ==
    /\ call[c].at = "found"
    /\ call' = [call EXCEPT ![c] = IF Handle(c) = 0 THEN Idle
                                   ELSE [@ EXCEPT !.at = "checked", !.id = Handle(c)]]
    /\ UNCHANGED <<timers, lock, rtosVars, cmds, timerOverlap>>

\* The handle is not volatile: the build may keep what was tested, or read it again
\* for the command (to the same effect, unless it has changed).
Reread(c) ==
    /\ call[c].at = "checked" /\ call[c].op # "delete"
    /\ Handle(c) # call[c].id
    /\ call' = [call EXCEPT ![c].at = "reread", ![c].id = Handle(c)]
    /\ UNCHANGED <<timers, lock, rtosVars, cmds, timerOverlap>>

\* Mutant: the state is stored even if the command could not be posted.
Post_IgnoresFull(c) ==
    /\ call[c].at \in {"checked", "reread"} /\ call[c].op # "delete"
    /\ call[c].id # 0
    /\ call' = [call EXCEPT ![c].at = "posted"]
    /\ cmds' = IF Len(cmds) < QueueLength
               THEN Append(cmds, [op |-> call[c].op, id |-> call[c].id]) ELSE cmds
    /\ UNCHANGED <<timers, lock, rtosVars, timerOverlap>>

\* The command is posted, to the handle that was read and without waiting: with a
\* full queue the call returns ESP_FAIL.
Post(c) ==
    /\ call[c].at \in {"checked", "reread"} /\ call[c].op # "delete"
    /\ call[c].id # 0
    /\ IF Len(cmds) < QueueLength
       THEN /\ cmds' = Append(cmds, [op |-> call[c].op, id |-> call[c].id])
            /\ call' = [call EXCEPT ![c].at = "posted"]
       ELSE /\ call' = [call EXCEPT ![c] = Idle]
            /\ UNCHANGED cmds
    /\ UNCHANGED <<timers, lock, rtosVars, timerOverlap>>

\* The last critical section of os_timer_start, _stop and _restart.
Mark(c) ==
    /\ call[c].at = "posted" /\ lock = Nobody
    /\ timers' = [timers EXCEPT ![call[c].slot].active = (call[c].op # "stop")]
    /\ call' = [call EXCEPT ![c] = Idle]
    /\ UNCHANGED <<lock, rtosVars, cmds, timerOverlap>>

\* os_timer_delete takes the lock.
DeleteLocks(c) ==
    /\ call[c].at = "checked" /\ call[c].op = "delete"
    /\ lock = Nobody
    /\ lock' = c
    /\ call' = [call EXCEPT ![c].at = "locked"]
    /\ UNCHANGED <<timers, rtosVars, cmds, timerOverlap>>

\* It posts the stop, waiting for room.
DeleteStops(c) ==
    /\ call[c].at = "locked"
    /\ Handle(c) # 0
    /\ Len(cmds) < QueueLength
    /\ cmds' = Append(cmds, [op |-> "stop", id |-> Handle(c)])
    /\ call' = [call EXCEPT ![c].at = "stopped"]
    /\ UNCHANGED <<timers, lock, rtosVars, timerOverlap>>

\* Mutant: the slot is cleared without deleting its timer.
DeleteClears_Leaks(c) ==
    /\ call[c].at = "stopped"
    /\ timers' = [timers EXCEPT ![call[c].slot] = Cleared]
    /\ lock' = Nobody
    /\ call' = [call EXCEPT ![c] = Idle]
    /\ UNCHANGED <<rtosVars, cmds, timerOverlap>>

\* Mutant: the timer is deleted but its slot is not cleared.
DeleteClears_NoMemset(c) ==
    /\ call[c].at = "stopped"
    /\ Len(cmds) < QueueLength
    /\ cmds' = Append(cmds, [op |-> "delete", id |-> Handle(c)])
    /\ lock' = Nobody
    /\ call' = [call EXCEPT ![c] = Idle]
    /\ UNCHANGED <<timers, rtosVars, timerOverlap>>

\* It posts the delete, clears the slot and gives the lock back.
DeleteClears(c) ==
    /\ call[c].at = "stopped"
    /\ Len(cmds) < QueueLength
    /\ cmds' = Append(cmds, [op |-> "delete", id |-> Handle(c)])
    /\ timers' = [timers EXCEPT ![call[c].slot] = Cleared]
    /\ lock' = Nobody
    /\ call' = [call EXCEPT ![c] = Idle]
    /\ UNCHANGED <<rtosVars, timerOverlap>>

\* The handle was cleared between the test and the read: the assertion in the timer
\* API fails and the system restarts.
Panic(c) ==
    /\ \/ call[c].at = "reread" /\ call[c].id = 0
       \/ call[c].at = "locked" /\ Handle(c) = 0
    /\ timers' = [s \in Slots |-> Cleared]
    /\ lock' = Nobody
    /\ call' = [d \in TimerCallers |-> Idle]
    /\ rtos' = [i \in Ids |-> "free"]
    /\ timerId' = [i \in Ids |-> 0]
    /\ auto' = {}
    /\ cmds' = <<>>
    /\ timerOverlap' = FALSE

-----------------------------------------------------------------------------
\* The state of a timer after a command.  A command for a freed timer writes to
\* memory that is no timer any more; it revives nothing.
Executed(op, now) ==
    IF now = "free" THEN "free"
    ELSE CASE op = "start" -> "running" [] op = "stop" -> "dormant" [] op = "delete" -> "free"


\* Timer task: the next command is executed.
TimerTask ==
    /\ cmds # <<>>
    /\ rtos' = [rtos EXCEPT ![Head(cmds).id] = Executed(Head(cmds).op, @)]
    /\ cmds' = Tail(cmds)
    /\ IF Head(cmds).op = "delete"
       THEN /\ timerId' = [timerId EXCEPT ![Head(cmds).id] = 0]
            /\ auto' = auto \ {Head(cmds).id}
       ELSE UNCHANGED <<timerId, auto>>
    /\ UNCHANGED <<timers, lock, call, timerOverlap>>

\* Timer task: a running timer expires.  timer_callback counts it; it leaves active
\* as it is, also when a one-shot timer stops.
TimerCallback(i) ==
    /\ rtos[i] = "running"
    /\ rtos' = IF i \in auto THEN rtos ELSE [rtos EXCEPT ![i] = "dormant"]
    /\ UNCHANGED <<timers, lock, call, timerId, auto, cmds, timerOverlap>>

TimerCallerStep(c) ==
    \/ Check(c) \/ Reread(c) \/ Post(c) \/ Mark(c)
    \/ DeleteLocks(c) \/ DeleteStops(c) \/ DeleteClears(c) \/ Panic(c)

\* The shell command timer: create, or start, stop, restart and delete of the timer
\* that os_timer_find returns.
CmdTimer(c) == \E n \in Names : Create(c, n) \/ \E op \in Ops : Find(c, n, op)

TimerNext ==
    \/ \E c \in TimerCallers : CmdTimer(c) \/ TimerCallerStep(c)
    \/ TimerTask
    \/ \E i \in Ids : TimerCallback(i)

\* The timer task works off its queue.  Tasks that wait for the mutex or for room
\* in the queue are served in turn: FreeRTOS wakes the one that waits longest.
TimerFairness ==
    WF_timerVars(TimerTask) /\ \A c \in TimerCallers : SF_timerVars(TimerCallerStep(c))

TimerSpec == TimerInit /\ [][TimerNext]_timerVars /\ TimerFairness
-----------------------------------------------------------------------------
(* Properties *)

\* Is the deletion of timer i on its way?
Doomed(i) == \E k \in 1 .. Len(cmds) : cmds[k] = [op |-> "delete", id |-> i]

\* A slot's handle is always a timer that exists, is not about to be deleted and
\* reports to this slot; and every such timer is in the table, where it can be
\* listed and deleted.  So no interleaving of creates and deletes loses a timer
\* or leaves a handle dangling.
TimersOwned ==
    /\ TimerTypeOK
    /\ \A s \in Slots : timers[s].handle # 0 =>
         LET i == timers[s].handle IN
         rtos[i] \in {"dormant", "running"} /\ ~Doomed(i) /\ timerId[i] = s
    /\ \A i \in Ids : rtos[i] \in {"dormant", "running"} /\ ~Doomed(i) =>
         timers[timerId[i]].handle = i

\* As long as no two calls for one slot overlap, the timer task never executes a
\* command for a timer it has freed.
CommandsReachTimer ==
    ~timerOverlap => \A k \in 1 .. Len(cmds) :
        /\ rtos[cmds[k].id] # "free"
        /\ \A j \in 1 .. k - 1 : cmds[j].op = "delete" => cmds[j].id # cmds[k].id

\* The state timer i will be in when the queued commands have been executed.
Settled(i) ==
    LET queued == {k \in 1 .. Len(cmds) : cmds[k].id = i} IN
    IF queued = {} THEN rtos[i]
    ELSE Executed(cmds[CHOOSE k \in queued : \A j \in queued : j <= k].op, rtos[i])

\* As long as no two calls for one slot overlap, os_timer_is_active is right for
\* auto-reload timers: between calls the flag says whether the timer runs once the
\* commands on their way have been executed, those refused by a full queue and
\* those of earlier timers in the same slot notwithstanding.
ActiveIsRunning ==
    ~timerOverlap => \A s \in Slots :
        \/ timers[s].handle = 0 \/ ~timers[s].reload
        \/ \E c \in TimerCallers : call[c].at \in {"posted", "stopped"} /\ call[c].slot = s
        \/ timers[s].active = (Settled(timers[s].handle) = "running")

=============================================================================

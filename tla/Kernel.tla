------------------------------- MODULE Kernel -------------------------------
(***************************************************************************)
(* The process table of os_kernel.c: a static array of descriptors that    *)
(* maps FreeRTOS task handles to pids, guarded by one mutex.               *)
(*                                                                         *)
(* FreeRTOS itself is external.  A task handle is the address of a task    *)
(* control block (TCB); a task that deletes itself leaves its TCB on the   *)
(* termination list until the idle task frees it, after which the same     *)
(* address may be handed out by a later xTaskCreate.  The table knows      *)
(* nothing of that: nobody tells it when a managed task returns.           *)
(*                                                                         *)
(* Every public function holds s_k.lock from its first access of the table *)
(* to its last, so it is one action -- except a task that kills or         *)
(* suspends itself, which never comes back from vTaskDelete/vTaskSuspend   *)
(* and so keeps the mutex.                                                 *)
(*                                                                         *)
(* Left out of process_t: name, priority, stack sizes, is_system and the   *)
(* tick counts, which no control decision of the module reads.  READY      *)
(* stands for both PROC_STATE_RUNNING and PROC_STATE_READY.                *)
(***************************************************************************)
EXTENDS Integers

CONSTANTS
    MaxProcesses,   \* OS_MAX_PROCESSES
    Handles,        \* addresses xTaskCreate can return
    Null,           \* the NULL handle
    Boot,           \* any caller that is not a managed task (app_main, shells)
    PidMod,         \* 2^16: os_pid_t and count are uint16_t
    MaxIssued       \* bound: how many pids a behaviour may consume

ASSUME KernelAssumption ==
    /\ MaxProcesses \in Nat \ {0}
    /\ PidMod \in Nat /\ PidMod >= 2
    /\ MaxIssued \in Nat
    /\ Null \notin Handles
    /\ Boot \notin Handles
    /\ Boot # Null

Slots == 1 .. MaxProcesses

Pids == 0 .. PidMod - 1

ProcStates == {"READY", "BLOCKED", "SUSPENDED", "DELETED", "INVALID"}

\* States of a TCB: "zombie" is on the termination list, "none" is free memory.
TaskStates == {"none", "ready", "blocked", "suspended", "zombie"}

VARIABLES
    initialised,    \* s_k.initialised
    table,          \* s_k.table
    count,          \* s_k.count
    nextPid,        \* s_k.next_pid
    lock,           \* holder of s_k.lock between actions, Null when it is free
    task,           \* FreeRTOS: state of the TCB at each address
    owner,          \* history: the pid each TCB was created for
    issued,         \* history: number of pids consumed so far
    killed,         \* history: pids for which OS_SIG_KILL returned ESP_OK
    returned        \* history: has a managed task deleted itself

vars == <<initialised, table, count, nextPid, lock, task, owner, issued, killed, returned>>

Entry == [pid : Pids, handle : Handles \cup {Null}, state : ProcStates]

TypeOK ==
    /\ initialised \in BOOLEAN
    /\ table \in [Slots -> Entry]
    /\ count \in Pids
    /\ nextPid \in Pids
    /\ lock \in Handles \cup {Null}
    /\ task \in [Handles -> TaskStates]
    /\ owner \in [Handles -> Pids]
    /\ issued \in Nat
    /\ killed \in SUBSET Pids
    /\ returned \in BOOLEAN

-----------------------------------------------------------------------------
Init ==
    /\ initialised = FALSE
    /\ table = [i \in Slots |-> [pid |-> 0, handle |-> Null, state |-> "INVALID"]]
    /\ count = 0
    /\ nextPid = 1
    /\ lock = Null
    /\ task = [h \in Handles |-> "none"]
    /\ owner = [h \in Handles |-> 0]
    /\ issued = 0
    /\ killed = {}
    /\ returned = FALSE

\* Mutant: next_pid left at its zero-initialised value.
KernelInit_PidFromZero ==
    /\ ~initialised
    /\ initialised' = TRUE
    /\ nextPid' = 0
    /\ UNCHANGED <<table, count, lock, task, owner, issued, killed, returned>>

\* os_kernel_init; a second call returns at the initialised check.
KernelInit ==
    /\ ~initialised
    /\ initialised' = TRUE
    /\ table' = [i \in Slots |-> [pid |-> 0, handle |-> Null, state |-> "INVALID"]]
    /\ nextPid' = 1
    /\ count' = 0
    /\ UNCHANGED <<lock, task, owner, issued, killed, returned>>

Alive(h) == task[h] \in {"ready", "blocked", "suspended"}

\* Who can execute code: unmanaged callers, and managed tasks that are scheduled.
Runs(c) == IF c = Boot THEN TRUE ELSE task[c] = "ready"

\* xSemaphoreTake(s_k.lock, portMAX_DELAY) succeeds for caller c.
TakesLock(c) == initialised /\ lock = Null /\ Runs(c)

FreeState(s) == s \in {"INVALID", "DELETED"}

\* Mutant: a suspended process counts as a reusable slot.
IsFindSlot_TakesSuspended(i) ==
    LET Reusable(j) == FreeState(table[j].state) \/ table[j].state = "SUSPENDED" IN
    /\ Reusable(i)
    /\ \A j \in Slots : j < i => ~Reusable(j)

\* find_slot returns the first reusable entry.
IsFindSlot(i) ==
    /\ FreeState(table[i].state)
    /\ \A j \in Slots : j < i => ~FreeState(table[j].state)

\* find_by_pid_locked returns the first entry with this pid that is not INVALID.
Matches(i, p) == table[i].pid = p /\ table[i].state # "INVALID"

IsFindByPid(i, p) ==
    /\ Matches(i, p)
    /\ \A j \in Slots : j < i => ~Matches(j, p)

\* s_k.next_pid++ on a uint16_t.
NextPid == IF nextPid + 1 = PidMod THEN 0 ELSE nextPid + 1

\* os_process_create when xTaskCreate succeeds.
ProcessCreate(c, h) ==
    /\ TakesLock(c)
    /\ issued < MaxIssued
    /\ task[h] = "none"
    /\ \E i \in Slots :
         /\ IsFindSlot(i)
         /\ table' = [table EXCEPT ![i] =
                        [pid |-> nextPid, handle |-> h, state |-> "READY"]]
    /\ task' = [task EXCEPT ![h] = "ready"]
    /\ owner' = [owner EXCEPT ![h] = nextPid]
    /\ nextPid' = NextPid
    /\ issued' = issued + 1
    /\ count' = IF count + 1 = PidMod THEN 0 ELSE count + 1
    /\ UNCHANGED <<initialised, lock, killed, returned>>

\* os_process_create when xTaskCreate fails: the slot is free again, the pid is spent.
ProcessCreateFails(c) ==
    /\ TakesLock(c)
    /\ issued < MaxIssued
    /\ \E i \in Slots :
         /\ IsFindSlot(i)
         /\ table' = [table EXCEPT ![i] =
                        [pid |-> nextPid, handle |-> Null, state |-> "INVALID"]]
    /\ nextPid' = NextPid
    /\ issued' = issued + 1
    /\ UNCHANGED <<initialised, count, lock, task, owner, killed, returned>>

\* vTaskDelete of another task; what it does to memory that is no task is undefined
\* (it may stop the system), but it revives nothing and ends no live task.
Deleted(h) == IF h # Null /\ Alive(h) THEN [task EXCEPT ![h] = "zombie"] ELSE task

\* Mutant: the handle is cleared first, so vTaskDelete(NULL) deletes the caller.
ProcessKill_ClearsFirst(c, p) ==
    /\ TakesLock(c)
    /\ \E i \in Slots :
         /\ IsFindByPid(i, p)
         /\ table[i].handle # c
         /\ task' = IF c = Boot THEN task ELSE Deleted(c)
         /\ table' = [table EXCEPT ![i] =
                        [@ EXCEPT !.handle = Null, !.state = "DELETED"]]
    /\ count' = IF count > 0 THEN count - 1 ELSE 0
    /\ killed' = killed \cup {p}
    /\ UNCHANGED <<initialised, nextPid, lock, owner, issued, returned>>

\* Mutant: the handle of a killed process is kept.
ProcessKill_KeepsHandle(c, p) ==
    /\ TakesLock(c)
    /\ \E i \in Slots :
         /\ IsFindByPid(i, p)
         /\ table[i].handle # c
         /\ task' = Deleted(table[i].handle)
         /\ table' = [table EXCEPT ![i].state = "DELETED"]
    /\ count' = IF count > 0 THEN count - 1 ELSE 0
    /\ killed' = killed \cup {p}
    /\ UNCHANGED <<initialised, nextPid, lock, owner, issued, returned>>

\* os_process_signal, case OS_SIG_KILL, sent by another task.
ProcessKill(c, p) ==
    /\ TakesLock(c)
    /\ \E i \in Slots :
         /\ IsFindByPid(i, p)
         /\ table[i].handle # c
         /\ task' = Deleted(table[i].handle)
         /\ table' = [table EXCEPT ![i] =
                        [@ EXCEPT !.handle = Null, !.state = "DELETED"]]
    /\ count' = IF count > 0 THEN count - 1 ELSE 0
    /\ killed' = killed \cup {p}
    /\ UNCHANGED <<initialised, nextPid, lock, owner, issued, returned>>

\* The same call when the entry found holds the caller's own handle:
\* vTaskDelete does not return, so nothing after it happens.
ProcessKillSelf(c, p) ==
    /\ TakesLock(c)
    /\ c # Boot
    /\ \E i \in Slots : IsFindByPid(i, p) /\ table[i].handle = c
    /\ task' = [task EXCEPT ![c] = "zombie"]
    /\ lock' = c
    /\ UNCHANGED <<initialised, table, count, nextPid, owner, issued, killed, returned>>

\* vTaskSuspend and vTaskResume on a handle; a freed or dying TCB is not revived.
Suspended(h) == IF h # Null /\ Alive(h) THEN [task EXCEPT ![h] = "suspended"] ELSE task
Resumed(h) == IF h # Null /\ task[h] = "suspended" THEN [task EXCEPT ![h] = "ready"] ELSE task

\* os_process_signal, case OS_SIG_SUSPEND, sent by another task.
ProcessSuspend(c, p) ==
    /\ TakesLock(c)
    /\ \E i \in Slots :
         /\ IsFindByPid(i, p)
         /\ table[i].handle # c
         /\ task' = Suspended(table[i].handle)
         /\ table' = [table EXCEPT ![i].state = "SUSPENDED"]
    /\ UNCHANGED <<initialised, count, nextPid, lock, owner, issued, killed, returned>>

\* A task that suspends itself stops inside vTaskSuspend, with the mutex.
ProcessSuspendSelf(c, p) ==
    /\ TakesLock(c)
    /\ c # Boot
    /\ \E i \in Slots : IsFindByPid(i, p) /\ table[i].handle = c
    /\ task' = [task EXCEPT ![c] = "suspended"]
    /\ lock' = c
    /\ UNCHANGED <<initialised, table, count, nextPid, owner, issued, killed, returned>>

\* os_process_signal, case OS_SIG_CONT.
ProcessResume(c, p) ==
    /\ TakesLock(c)
    /\ \E i \in Slots :
         /\ IsFindByPid(i, p)
         /\ task' = Resumed(table[i].handle)
         /\ table' = [table EXCEPT ![i].state = "READY"]
    /\ UNCHANGED <<initialised, count, nextPid, lock, owner, issued, killed, returned>>

\* refresh_entries_locked looks only at these entries.
Refreshed(i) == ~FreeState(table[i].state) /\ table[i].handle # Null

\* What eTaskGetState, through freertos_state, may report of a handle: reading a
\* freed TCB is undefined and may report anything.
Reports(h) ==
    CASE task[h] = "ready"     -> {"READY"}
      [] task[h] = "blocked"   -> {"BLOCKED"}
      [] task[h] = "suspended" -> {"SUSPENDED"}
      [] task[h] = "zombie"    -> {"DELETED"}
      [] OTHER                 -> ProcStates

\* os_process_list (ps, top, the web portal): the one call that refreshes entries.
ProcessList(c) ==
    /\ TakesLock(c)
    /\ \E seen \in [Slots -> ProcStates] :
         /\ \A i \in Slots : IF Refreshed(i) THEN seen[i] \in Reports(table[i].handle)
                                             ELSE seen[i] = table[i].state
         /\ table' = [i \in Slots |-> [table[i] EXCEPT !.state = seen[i]]]
    /\ UNCHANGED <<initialised, count, nextPid, lock, task, owner, issued, killed, returned>>

-----------------------------------------------------------------------------
\* FreeRTOS moves a task between its ready and blocked lists.
TaskBlocks(h) ==
    /\ task[h] = "ready"
    /\ task' = [task EXCEPT ![h] = "blocked"]
    /\ UNCHANGED <<initialised, table, count, nextPid, lock, owner, issued, killed, returned>>

TaskUnblocks(h) ==
    /\ task[h] = "blocked"
    /\ task' = [task EXCEPT ![h] = "ready"]
    /\ UNCHANGED <<initialised, table, count, nextPid, lock, owner, issued, killed, returned>>

\* A managed task ends with vTaskDelete(NULL), as bg_task does; the table is not told.
TaskReturns(h) ==
    /\ task[h] = "ready"
    /\ task' = [task EXCEPT ![h] = "zombie"]
    /\ returned' = TRUE
    /\ UNCHANGED <<initialised, table, count, nextPid, lock, owner, issued, killed>>

\* The idle task frees a deleted task's TCB: its address can be allocated again.
IdleReclaims(h) ==
    /\ task[h] = "zombie"
    /\ task' = [task EXCEPT ![h] = "none"]
    /\ UNCHANGED <<initialised, table, count, nextPid, lock, owner, issued, killed, returned>>

\* The shell commands kill, suspend and resume, and handle_process_action of the web
\* portal, with any pid.
Signals(c) ==
    \E p \in Pids :
        \/ ProcessKill(c, p) \/ ProcessKillSelf(c, p)
        \/ ProcessSuspend(c, p) \/ ProcessSuspendSelf(c, p)
        \/ ProcessResume(c, p)

Next ==
    \/ KernelInit
    \/ \E c \in Handles \cup {Boot} :
         \/ \E h \in Handles : ProcessCreate(c, h)
         \/ ProcessCreateFails(c)
         \/ ProcessList(c)
         \/ Signals(c)
    \/ \E h \in Handles :
         TaskBlocks(h) \/ TaskUnblocks(h) \/ TaskReturns(h) \/ IdleReclaims(h)

Spec == Init /\ [][Next]_vars
-----------------------------------------------------------------------------
(* Properties *)

\* Every live managed task has an entry that os_process_signal can find: no
\* reuse of slots by find_slot, no refresh and no failed create ever drops the
\* entry of a task that is still running, so it can always be listed and killed.
LiveTasksListed ==
    \A h \in Handles : Alive(h) =>
        \E i \in Slots : /\ table[i].handle = h
                         /\ table[i].pid = owner[h]
                         /\ ~FreeState(table[i].state)

\* Until the 16-bit pid counter wraps, the entries find_by_pid_locked looks at
\* have distinct pids and none of them is 0, the failure code of
\* os_process_create.
PidsFresh ==
    issued < PidMod =>
        /\ \A i \in Slots : table[i].state # "INVALID" => table[i].pid # 0
        /\ \A i, j \in Slots :
             /\ table[i].state # "INVALID"
             /\ table[j].state # "INVALID"
             /\ table[i].pid = table[j].pid
             => i = j

\* Until the pid counter wraps, once OS_SIG_KILL has returned ESP_OK for a pid no
\* task created under that pid is alive, whatever signals, refreshes and slot
\* reuse follow.
KillIsFinal ==
    issued < PidMod => \A h \in Handles : Alive(h) => owner[h] \notin killed

\* The pid os_process_self returns to the task with handle h is that of the first
\* entry with this handle.
IsProcessSelf(i, h) ==
    /\ table[i].handle = h
    /\ table[i].state # "INVALID"
    /\ \A j \in Slots : j < i => ~(table[j].handle = h /\ table[j].state # "INVALID")

\* os_process_self tells a managed task the pid os_process_create returned for it.
SelfPidIsOwn ==
    \A h \in Handles : Alive(h) =>
        \E i \in Slots : IsProcessSelf(i, h) /\ table[i].pid = owner[h]

\* As long as no managed task has deleted itself, os_process_self is right for
\* every live managed task: only a self-deletion leaves a handle behind that a
\* later task can share.
SelfPidUntilReturn == ~returned => SelfPidIsOwn

\* The table's mutex is free whenever no call is in progress: nobody stops for
\* good while holding it.
MutexNeverAbandoned == lock = Null
=============================================================================

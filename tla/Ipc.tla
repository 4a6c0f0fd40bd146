-------------------------------- MODULE Ipc --------------------------------
(***************************************************************************)
(* The IPC objects of os_ipc.c: message queues, event groups and shared    *)
(* memory, three tables of named slots under one mutex.  A handle is a     *)
(* pointer to a slot and stays in the hands of callers after the object    *)
(* behind it is gone.                                                      *)
(*                                                                         *)
(* Create, find, delete and os_shm_get_ptr test s_initialized first and    *)
(* then take s_mutex.  Everything else done with a queue or an event group *)
(* (send, receive, count, set, clear, get, wait) tests active and then     *)
(* uses the FreeRTOS handle without the mutex.  The shell command          *)
(* "test ipc" runs os_ipc_deinit and os_ipc_init while other sessions work.*)
(*                                                                         *)
(* FreeRTOS and the heap are external: an object exists from its creation  *)
(* to its deletion.  What is in a queue, an event group or a region is     *)
(* left out, and so are sizes and timeouts: no access of this module       *)
(* depends on them.  The listings change nothing.                          *)
(***************************************************************************)
EXTENDS Integers, FiniteSets

CONSTANTS
    Queues, Events, Regions,    \* the slots of s_queues, s_events and s_shm
    Names,          \* names callers use
    Long,           \* those that do not fit into OS_IPC_NAME_LEN - 1 characters
    Cut,            \* what is left of them in a slot
    NoName,         \* the name of a slot that was never used
    Callers,        \* tasks that use the API
    Tester,         \* the shell session that executes "test ipc"
    Nobody,         \* holder of a free mutex
    MaxObjects      \* number of objects made before a restart

ASSUME IpcAssumption ==
    /\ Queues \subseteq Nat \ {0} /\ Events \subseteq Nat \ {0} /\ Regions \subseteq Nat \ {0}
    /\ Queues \cap Events = {} /\ Queues \cap Regions = {} /\ Events \cap Regions = {}
    /\ Long \subseteq Names /\ Cut \notin Names /\ NoName \notin Names \cup {Cut}
    /\ Tester \in Callers /\ Nobody \notin Callers
    /\ MaxObjects \in Nat

Tables == {Queues, Events, Regions}
Slots == Queues \cup Events \cup Regions
Objects == 1 .. MaxObjects

VARIABLES
    inited,     \* s_initialized
    mutex,      \* s_mutex is not NULL
    lock,       \* holder of s_mutex between actions
    slots,      \* s_queues, s_events and s_shm
    pc,         \* what each caller is doing, and the handle it has
    live,       \* the FreeRTOS objects and buffers that exist
    made,       \* how many were made
    late        \* history: an object was made after the tables were torn down

vars == <<inited, mutex, lock, slots, pc, live, made, late>>

\* os_msgq_s, os_event_s and os_shm_s; obj is handle or buffer, 0 for NULL.
Slot == [obj : Objects \cup {0}, name : Names \cup {Cut, NoName}, active : BOOLEAN]

\* A slot after memset.
Unused == [obj |-> 0, name |-> NoName, active |-> FALSE]

\* Waiting for the mutex, with s_initialized seen to be true.
Entered == {"create", "find", "delete", "get_ptr", "deinit"}

\* "checked": active was seen to be true; "using": obj is being accessed;
\* "deleted": the object is gone, the slot still active; "torn": so for all slots;
\* "given": os_ipc_deinit has given the mutex but not yet deleted it.
\* want is the object that slot had when the caller got the handle.
Calls == [at : {"ready", "checked", "using", "deleted", "torn", "given"} \cup Entered,
          table : Tables \cup {{}}, name : Names \cup {NoName},
          slot : Slots \cup {0}, want : Objects \cup {0}, obj : Objects \cup {0}]

\* Between calls, with a handle (or NULL).
Ready(s, o) == [at |-> "ready", table |-> {}, name |-> NoName,
                slot |-> s, want |-> o, obj |-> 0]

TypeOK ==
    /\ inited \in BOOLEAN /\ mutex \in BOOLEAN /\ late \in BOOLEAN
    /\ lock \in Callers \cup {Nobody}
    /\ slots \in [Slots -> Slot]
    /\ pc \in [Callers -> Calls]
    /\ live \in SUBSET Objects
    /\ made \in Objects \cup {0}

\* After os_ipc_init in app_main.
Init ==
    /\ inited = TRUE /\ mutex = TRUE
    /\ lock = Nobody
    /\ slots = [s \in Slots |-> Unused]
    /\ pc = [c \in Callers |-> Ready(0, 0)]
    /\ live = {}
    /\ made = 0
    /\ late = FALSE

-----------------------------------------------------------------------------

\* strncpy into the slot.
Stored(n) == IF n \in Long THEN Cut ELSE n

\* Mutant: the first slot is taken whether or not it is active.
IsFree_AnySlot(s, T) == s \in T /\ \A t \in T : s <= t

\* find_free_queue_slot, find_free_event_slot, find_free_shm_slot.
IsFree(s, T) == s \in T /\ ~slots[s].active /\ \A t \in T : t < s => slots[t].active

\* strcmp of the stored names with the name that is asked for.
Named(s, n) == slots[s].active /\ slots[s].name = n
IsFind(s, n, T) == s \in T /\ Named(s, n) /\ \A t \in T : t < s => ~Named(t, n)

\* The first test of a function that takes the mutex.
Enter(c, op, T, n) ==
    /\ pc[c].at = "ready" /\ inited
    /\ pc' = [pc EXCEPT ![c] = [@ EXCEPT !.at = op, !.table = T, !.name = n]]
    /\ UNCHANGED <<inited, mutex, lock, slots, live, made, late>>

\* The three functions that create, find and delete have the same body, for their
\* own table: see Create, Find and Delete.
MsgqCreate(c, n) == Enter(c, "create", Queues, n)
EventCreate(c, n) == Enter(c, "create", Events, n)
ShmCreate(c, n) == Enter(c, "create", Regions, n)

MsgqFind(c, n) == Enter(c, "find", Queues, n)
EventFind(c, n) == Enter(c, "find", Events, n)
ShmFind(c, n) == Enter(c, "find", Regions, n)

MsgqDelete(c) == pc[c].slot \in Queues /\ Enter(c, "delete", {}, NoName)
EventDelete(c) == pc[c].slot \in Events /\ Enter(c, "delete", {}, NoName)
ShmDelete(c) == pc[c].slot \in Regions /\ Enter(c, "delete", {}, NoName)

ShmGetPtr(c) == pc[c].slot \in Regions /\ mutex /\ Enter(c, "get_ptr", {}, NoName)

\* Only the tests call os_ipc_deinit.
Deinit(c) == c = Tester /\ Enter(c, "deinit", {}, NoName)

\* xSemaphoreTake succeeds.
Takes(c, op) == pc[c].at = op /\ mutex /\ lock = Nobody

\* os_msgq_create, os_event_create, os_shm_create: s_initialized is not tested again.
Create(c) ==
    /\ Takes(c, "create")
    /\ \A s \in pc[c].table : ~Named(s, pc[c].name)
    /\ made < MaxObjects
    /\ \E s \in Slots :
         /\ IsFree(s, pc[c].table)
         /\ slots' = [slots EXCEPT ![s] =
              [obj |-> made + 1, name |-> Stored(pc[c].name), active |-> TRUE]]
         /\ pc' = [pc EXCEPT ![c] = Ready(s, made + 1)]
    /\ live' = live \cup {made + 1}
    /\ made' = made + 1
    /\ late' = (late \/ ~inited)
    /\ UNCHANGED <<inited, mutex, lock>>

\* They return NULL: the name is taken, no slot is free or the allocation failed.
CreateFails(c) ==
    /\ Takes(c, "create")
    /\ pc' = [pc EXCEPT ![c] = Ready(0, 0)]
    /\ UNCHANGED <<inited, mutex, lock, slots, live, made, late>>

\* os_msgq_find, os_event_find, os_shm_find.
Find(c) ==
    /\ Takes(c, "find")
    /\ LET T == pc[c].table IN
       \/ \E s \in T : IsFind(s, pc[c].name, T) /\ pc' = [pc EXCEPT ![c] = Ready(s, slots[s].obj)]
       \/ (\A s \in T : ~Named(s, pc[c].name)) /\ pc' = [pc EXCEPT ![c] = Ready(0, 0)]
    /\ UNCHANGED <<inited, mutex, lock, slots, live, made, late>>

\* os_msgq_delete, os_event_delete, os_shm_delete take the mutex, validate the
\* handle and delete the object.
Delete(c) ==
    /\ Takes(c, "delete")
    /\ LET s == pc[c].slot IN
       IF slots[s].active
       THEN /\ live' = live \ {slots[s].obj}
            /\ lock' = c
            /\ pc' = [pc EXCEPT ![c] = [@ EXCEPT !.at = "deleted"]]
       ELSE /\ pc' = [pc EXCEPT ![c] = Ready(pc[c].slot, pc[c].want)]
            /\ UNCHANGED <<live, lock>>
    /\ UNCHANGED <<inited, mutex, slots, made, late>>

\* A slot when its object is gone: only a buffer pointer is cleared.
Inactive(s) ==
    [slots[s] EXCEPT !.active = FALSE, !.obj = IF s \in Regions THEN 0 ELSE @]

\* Mutant: the slot of a deleted object stays active.
DeleteEnds_StaysActive(c) ==
    /\ pc[c].at = "deleted" /\ mutex
    /\ lock' = IF lock = c THEN Nobody ELSE lock
    /\ pc' = [pc EXCEPT ![c] = Ready(pc[c].slot, pc[c].want)]
    /\ UNCHANGED <<inited, mutex, slots, live, made, late>>

\* They mark the slot inactive and give the mutex.
DeleteEnds(c) ==
    /\ pc[c].at = "deleted" /\ mutex
    /\ slots' = [slots EXCEPT ![pc[c].slot] = Inactive(pc[c].slot)]
    /\ lock' = IF lock = c THEN Nobody ELSE lock
    /\ pc' = [pc EXCEPT ![c] = Ready(pc[c].slot, pc[c].want)]
    /\ UNCHANGED <<inited, mutex, live, made, late>>

-----------------------------------------------------------------------------
\* is_valid_queue, is_valid_event: tested without the mutex.
Checks(c) ==
    /\ pc[c].at = "ready" /\ slots[pc[c].slot].active
    /\ pc' = [pc EXCEPT ![c] = [@ EXCEPT !.at = "checked"]]
    /\ UNCHANGED <<inited, mutex, lock, slots, live, made, late>>

\* os_msgq_send, _receive, _count, _spaces_available, _is_full: they return if the
\* test fails.
MsgqUse(c) == pc[c].slot \in Queues /\ Checks(c)

\* os_event_set, _clear, _get, _wait.
EventUse(c) == pc[c].slot \in Events /\ Checks(c)

\* The handle is read and the FreeRTOS function entered.
Use(c) ==
    /\ pc[c].at = "checked"
    /\ pc' = [pc EXCEPT ![c] = [@ EXCEPT !.at = "using", !.obj = slots[pc[c].slot].obj]]
    /\ UNCHANGED <<inited, mutex, lock, slots, live, made, late>>

\* os_shm_get_ptr, and os_shm_get_size alike: the region is read under the mutex,
\* and used by the caller later.
GetPtr(c) ==
    /\ Takes(c, "get_ptr")
    /\ LET s == pc[c].slot IN
       pc' = [pc EXCEPT ![c] =
                IF slots[s].active THEN [@ EXCEPT !.at = "using", !.obj = slots[s].obj]
                ELSE Ready(s, @.want)]
    /\ UNCHANGED <<inited, mutex, lock, slots, live, made, late>>

\* The access ends, by success or by a timeout.
UseEnds(c) ==
    /\ pc[c].at = "using"
    /\ pc' = [pc EXCEPT ![c] = Ready(pc[c].slot, pc[c].want)]
    /\ UNCHANGED <<inited, mutex, lock, slots, live, made, late>>

-----------------------------------------------------------------------------
\* os_ipc_deinit clears s_initialized and deletes the objects.
TearDown(c) ==
    /\ Takes(c, "deinit")
    /\ inited' = FALSE
    /\ live' = live \ {slots[s].obj : s \in {t \in Slots : slots[t].active}}
    /\ lock' = c
    /\ pc' = [pc EXCEPT ![c] = [@ EXCEPT !.at = "torn"]]
    /\ UNCHANGED <<mutex, slots, made, late>>

\* It has marked all slots inactive and gives the mutex.
TornDown(c) ==
    /\ pc[c].at = "torn"
    /\ slots' = [s \in Slots |-> Inactive(s)]
    /\ lock' = Nobody
    /\ pc' = [pc EXCEPT ![c] = [@ EXCEPT !.at = "given"]]
    /\ UNCHANGED <<inited, mutex, live, made, late>>

\* It deletes the mutex, whoever has it.
DeinitEnds(c) ==
    /\ pc[c].at = "given"
    /\ mutex' = FALSE
    /\ lock' = Nobody
    /\ pc' = [pc EXCEPT ![c] = Ready(0, 0)]
    /\ UNCHANGED <<inited, slots, live, made, late>>

\* os_ipc_init in a test.
IpcInit(c) ==
    /\ c = Tester /\ pc[c].at = "ready" /\ ~inited
    /\ mutex' = TRUE
    /\ lock' = Nobody
    /\ slots' = [s \in Slots |-> Unused]
    /\ inited' = TRUE
    /\ UNCHANGED <<pc, live, made, late>>

\* The mutex is NULL when it is taken or given, or the object that is accessed was
\* freed: the system stops and restarts (or, in the second case, nothing is noticed).
Panic(c) ==
    /\ \/ pc[c].at \in Entered \cup {"deleted"} /\ ~mutex
       \/ pc[c].at = "using" /\ pc[c].obj \notin live
    /\ inited' = TRUE /\ mutex' = TRUE
    /\ lock' = Nobody
    /\ slots' = [s \in Slots |-> Unused]
    /\ pc' = [d \in Callers |-> Ready(0, 0)]
    /\ live' = {}
    /\ made' = 0
    /\ late' = FALSE

CallerStep(c) ==
    \/ \E n \in Names : \/ MsgqCreate(c, n) \/ EventCreate(c, n) \/ ShmCreate(c, n)
                      \/ MsgqFind(c, n) \/ EventFind(c, n) \/ ShmFind(c, n)
    \/ Create(c) \/ CreateFails(c) \/ Find(c)
    \/ MsgqDelete(c) \/ EventDelete(c) \/ ShmDelete(c) \/ Delete(c) \/ DeleteEnds(c)
    \/ MsgqUse(c) \/ EventUse(c) \/ Use(c) \/ ShmGetPtr(c) \/ GetPtr(c) \/ UseEnds(c)
    \/ Deinit(c) \/ TearDown(c) \/ TornDown(c) \/ DeinitEnds(c) \/ IpcInit(c)
    \/ Panic(c)

Next == \E c \in Callers : CallerStep(c)

Spec == Init /\ [][Next]_vars
-----------------------------------------------------------------------------
(* Properties *)

\* Is the object of slot s deleted, and the slot about to be marked inactive?
Closing(s) == \E c \in Callers : pc[c].at = "torn" \/ (pc[c].at = "deleted" /\ pc[c].slot = s)

\* Every object that exists is in exactly one active slot, and the object of an
\* active slot exists, except while the holder of the mutex is between deleting it
\* and clearing the flag.  So no interleaving of creates, deletes, failures and
\* teardowns leaks an object, deletes one twice or loses track of one, unless a
\* create that saw s_initialized before os_ipc_deinit gets the mutex after it.
ObjectsOwned ==
    ~late =>
        /\ \A o \in live : \E s \in Slots : slots[s].active /\ slots[s].obj = o
        /\ \A s \in Slots : slots[s].active => slots[s].obj \in live \/ Closing(s)
        /\ \A s, t \in Slots :
             slots[s].active /\ slots[t].active /\ slots[s].obj = slots[t].obj => s = t

\* A name that fits into a slot is the name of at most one active slot of a table.
\* A longer one is not: it is stored cut off and compared in full.
NamesUnique ==
    \A T \in Tables : \A s, t \in T :
        slots[s].active /\ slots[t].active /\ slots[s].name = slots[t].name
            => s = t \/ slots[s].name = Cut

\* A handle is a pointer to a slot that may be given to another object at any time.
\* Yet as long as the object it was obtained for exists, an access through it is an
\* access to that object, and a lookup of that object's name would lead to it too.
HandlesReach ==
    ~late =>
        /\ NamesUnique
        /\ \A c \in Callers :
             pc[c].at = "using" /\ pc[c].want \in live => pc[c].obj = pc[c].want
=============================================================================

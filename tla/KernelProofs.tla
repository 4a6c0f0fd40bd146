---------------------------- MODULE KernelProofs ----------------------------
(***************************************************************************)
(* Proofs about the process table for every table size, every set of TCB   *)
(* addresses and every pid width.                                          *)
(***************************************************************************)
EXTENDS Kernel, TLAPS

\* The steps of the process table that change neither the table nor a pid.
EnvironmentStep ==
    \E h \in Handles :
        TaskBlocks(h) \/ TaskUnblocks(h) \/ TaskReturns(h) \/ IdleReclaims(h)

\* TypeOK is inductive by itself: every field keeps its C type.
LEMMA TypeInductive == TypeOK /\ [Next]_vars => TypeOK'
<1> SUFFICES ASSUME TypeOK, [Next]_vars PROVE TypeOK'
  OBVIOUS
<1> USE KernelAssumption DEF TypeOK, Entry, Pids, TaskStates, ProcStates, Slots
<1>1. CASE KernelInit
  BY <1>1 DEF KernelInit
<1>2. ASSUME NEW c \in Handles \cup {Boot}, NEW h \in Handles, ProcessCreate(c, h)
      PROVE TypeOK'
  BY <1>2 DEF ProcessCreate, NextPid
<1>3. ASSUME NEW c \in Handles \cup {Boot}, ProcessCreateFails(c)
      PROVE TypeOK'
  BY <1>3 DEF ProcessCreateFails, NextPid
<1>4. ASSUME NEW c \in Handles \cup {Boot}, ProcessList(c)
      PROVE TypeOK'
  <2>1. PICK seen \in [Slots -> ProcStates] :
          table' = [i \in Slots |-> [table[i] EXCEPT !.state = seen[i]]]
    BY <1>4 DEF ProcessList
  <2>2. table' \in [Slots -> Entry]
    BY <2>1
  <2> QED
    BY <1>4, <2>2 DEF ProcessList
<1>5. ASSUME NEW c \in Handles \cup {Boot}, NEW p \in Pids, ProcessKill(c, p)
      PROVE TypeOK'
  <2>1. PICK i \in Slots :
          /\ task' = Deleted(table[i].handle)
          /\ table' = [table EXCEPT ![i] =
                         [table[i] EXCEPT !.handle = Null, !.state = "DELETED"]]
    BY <1>5 DEF ProcessKill
  <2>2. table' \in [Slots -> Entry]
    BY <2>1
  <2>3. task' \in [Handles -> TaskStates]
    BY <2>1 DEF Deleted
  <2>4. count' \in Pids /\ killed' \in SUBSET Pids
    BY <1>5 DEF ProcessKill
  <2>5. UNCHANGED <<initialised, nextPid, lock, owner, issued, returned>>
    BY <1>5 DEF ProcessKill
  <2> QED
    BY <2>2, <2>3, <2>4, <2>5
<1>6. ASSUME NEW c \in Handles \cup {Boot}, NEW p \in Pids, ProcessKillSelf(c, p)
      PROVE TypeOK'
  BY <1>6 DEF ProcessKillSelf
<1>7. ASSUME NEW c \in Handles \cup {Boot}, NEW p \in Pids, ProcessSuspend(c, p)
      PROVE TypeOK'
  <2>1. PICK i \in Slots : /\ task' = Suspended(table[i].handle)
                           /\ table' = [table EXCEPT ![i].state = "SUSPENDED"]
    BY <1>7 DEF ProcessSuspend
  <2>2. table' \in [Slots -> Entry]
    BY <2>1
  <2>3. task' \in [Handles -> TaskStates]
    BY <2>1 DEF Suspended
  <2>4. UNCHANGED <<initialised, count, nextPid, lock, owner, issued, killed, returned>>
    BY <1>7 DEF ProcessSuspend
  <2> QED
    BY <2>2, <2>3, <2>4
<1>8. ASSUME NEW c \in Handles \cup {Boot}, NEW p \in Pids, ProcessSuspendSelf(c, p)
      PROVE TypeOK'
  BY <1>8 DEF ProcessSuspendSelf
<1>9. ASSUME NEW c \in Handles \cup {Boot}, NEW p \in Pids, ProcessResume(c, p)
      PROVE TypeOK'
  <2>1. PICK i \in Slots : /\ task' = Resumed(table[i].handle)
                           /\ table' = [table EXCEPT ![i].state = "READY"]
    BY <1>9 DEF ProcessResume
  <2>2. table' \in [Slots -> Entry]
    BY <2>1
  <2>3. task' \in [Handles -> TaskStates]
    BY <2>1 DEF Resumed
  <2>4. UNCHANGED <<initialised, count, nextPid, lock, owner, issued, killed, returned>>
    BY <1>9 DEF ProcessResume
  <2> QED
    BY <2>2, <2>3, <2>4
<1>10. CASE EnvironmentStep
  BY <1>10 DEF EnvironmentStep, TaskBlocks, TaskUnblocks, TaskReturns, IdleReclaims
<1>11. CASE UNCHANGED vars
  BY <1>11 DEF vars
<1> QED
  BY <1>1, <1>2, <1>3, <1>4, <1>5, <1>6, <1>7, <1>8, <1>9, <1>10, <1>11
     DEF Next, Signals, EnvironmentStep

\* The table as os_kernel_init finds it is well typed.
LEMMA InitType == Init => TypeOK
<1>1. 0 \in Pids /\ 1 \in Pids /\ 0 \in Nat
  BY KernelAssumption DEF Pids
<1>2. Init => table \in [Slots -> Entry]
  BY <1>1 DEF Init, Entry, ProcStates
<1> QED
  BY <1>1, <1>2 DEF Init, TypeOK, TaskStates

\* Type correctness of the process table.
THEOREM TypeCorrect == Spec => []TypeOK
BY InitType, TypeInductive, PTL DEF Spec

-----------------------------------------------------------------------------
(* The inductive invariant. *)

\* Before os_kernel_init no pid has been issued and no managed task exists.
UninitInv ==
    ~initialised => /\ issued = 0
                    /\ killed = {}
                    /\ \A h \in Handles : task[h] = "none"

\* Until the counter wraps, next_pid is one more than the last pid issued, the
\* entries in use carry distinct pids already issued, and the entry of a killed
\* pid no longer has a handle.
FreshInv ==
    issued < PidMod =>
        /\ nextPid = IF issued + 1 = PidMod THEN 0 ELSE issued + 1
        /\ \A i \in Slots : table[i].state # "INVALID" => table[i].pid \in 1 .. issued
        /\ \A i, j \in Slots :
             /\ table[i].state # "INVALID"
             /\ table[j].state # "INVALID"
             /\ table[i].pid = table[j].pid
             => i = j
        /\ killed \subseteq 1 .. issued
        /\ \A i \in Slots : table[i].state # "INVALID" /\ table[i].pid \in killed
                            => table[i].handle = Null

IInv == TypeOK /\ UninitInv /\ LiveTasksListed /\ FreshInv

\* Once initialised the flag stays set, and only an initialised kernel acts.
LEMMA UninitInductive == TypeOK /\ UninitInv /\ [Next]_vars => UninitInv'
<1> SUFFICES ASSUME TypeOK, UninitInv, [Next]_vars PROVE UninitInv'
  OBVIOUS
<1> USE DEF UninitInv, TypeOK
<1>1. CASE KernelInit
  BY <1>1 DEF KernelInit
<1>2. CASE \E c \in Handles \cup {Boot} :
             \/ \E h \in Handles : ProcessCreate(c, h)
             \/ ProcessCreateFails(c)
             \/ ProcessList(c)
  BY <1>2 DEF ProcessCreate, ProcessCreateFails, ProcessList, TakesLock
<1>3. CASE \E c \in Handles \cup {Boot}, p \in Pids :
             \/ ProcessKill(c, p)
             \/ ProcessKillSelf(c, p)
             \/ ProcessSuspend(c, p)
             \/ ProcessSuspendSelf(c, p)
             \/ ProcessResume(c, p)
  <2>1. initialised /\ initialised' = initialised
    BY <1>3 DEF ProcessKill, ProcessKillSelf, ProcessSuspend, ProcessSuspendSelf,
                ProcessResume, TakesLock
  <2> QED
    BY <2>1
<1>4. CASE EnvironmentStep
  <2>1. PICK h \in Handles : task[h] # "none"
    BY <1>4 DEF EnvironmentStep, TaskBlocks, TaskUnblocks, TaskReturns, IdleReclaims
  <2>2. initialised' = initialised
    BY <1>4 DEF EnvironmentStep, TaskBlocks, TaskUnblocks, TaskReturns, IdleReclaims
  <2> QED
    BY <2>1, <2>2
<1>5. CASE UNCHANGED vars
  BY <1>5 DEF vars
<1> QED
  BY <1>1, <1>2, <1>3, <1>4, <1>5 DEF Next, Signals, EnvironmentStep

\* No step drops the entry of a live task.
LEMMA ListedInductive ==
    TypeOK /\ UninitInv /\ LiveTasksListed /\ [Next]_vars => LiveTasksListed'
<1> SUFFICES ASSUME TypeOK, UninitInv, LiveTasksListed, [Next]_vars,
                    NEW g \in Handles, Alive(g)'
             PROVE  \E i \in Slots : /\ table'[i].handle = g
                                     /\ table'[i].pid = owner'[g]
                                     /\ ~FreeState(table'[i].state)
  BY DEF LiveTasksListed, FreeState
<1> DEFINE Holds(i) == /\ table[i].handle = g
                       /\ table[i].pid = owner[g]
                       /\ ~FreeState(table[i].state)
<1>0. Alive(g) => \E i \in Slots : Holds(i)
  BY DEF LiveTasksListed
<1> USE KernelAssumption DEF TypeOK, Entry, Alive, FreeState
<1>1. CASE KernelInit
  BY <1>1 DEF KernelInit, UninitInv
<1>2. ASSUME NEW c \in Handles \cup {Boot}, NEW h \in Handles, ProcessCreate(c, h)
      PROVE  \E i \in Slots : Holds(i)'
  <2>1. PICK k \in Slots :
          /\ FreeState(table[k].state)
          /\ table' = [table EXCEPT ![k] =
                         [pid |-> nextPid, handle |-> h, state |-> "READY"]]
    BY <1>2 DEF ProcessCreate, IsFindSlot
  <2>2. CASE g = h
    <3>1. Holds(k)'
      BY <1>2, <2>1, <2>2 DEF ProcessCreate
    <3> QED
      BY <3>1
  <2>3. CASE g # h
    <3>1. PICK i \in Slots : Holds(i)
      BY <1>0, <1>2, <2>3 DEF ProcessCreate
    <3>2. i # k
      BY <2>1, <3>1
    <3>3. Holds(i)'
      BY <1>2, <2>1, <2>3, <3>1, <3>2 DEF ProcessCreate
    <3> QED
      BY <3>3
  <2> QED
    BY <2>2, <2>3
<1>3. ASSUME NEW c \in Handles \cup {Boot}, ProcessCreateFails(c)
      PROVE  \E i \in Slots : Holds(i)'
  <2>1. PICK k \in Slots :
          /\ FreeState(table[k].state)
          /\ table' = [table EXCEPT ![k] =
                         [pid |-> nextPid, handle |-> Null, state |-> "INVALID"]]
    BY <1>3 DEF ProcessCreateFails, IsFindSlot
  <2>2. PICK i \in Slots : Holds(i)
    BY <1>0, <1>3 DEF ProcessCreateFails
  <2>3. Holds(i)'
    BY <1>3, <2>1, <2>2 DEF ProcessCreateFails
  <2> QED
    BY <2>3
<1>4. ASSUME NEW c \in Handles \cup {Boot}, ProcessList(c)
      PROVE  \E i \in Slots : Holds(i)'
  <2>1. PICK i \in Slots : Holds(i)
    BY <1>0, <1>4 DEF ProcessList
  <2>2. PICK seen \in [Slots -> ProcStates] :
          /\ seen[i] \in Reports(g)
          /\ table' = [k \in Slots |-> [table[k] EXCEPT !.state = seen[k]]]
    BY <1>4, <2>1 DEF ProcessList, Refreshed
  <2>3. Reports(g) \in {{"READY"}, {"BLOCKED"}, {"SUSPENDED"}}
    BY <1>4 DEF ProcessList, Reports
  <2>4. Holds(i)'
    BY <1>4, <2>1, <2>2, <2>3 DEF ProcessList
  <2> QED
    BY <2>4
<1>5. ASSUME NEW c \in Handles \cup {Boot}, NEW p \in Pids, ProcessKill(c, p)
      PROVE  \E i \in Slots : Holds(i)'
  <2>1. PICK k \in Slots :
          /\ task' = Deleted(table[k].handle)
          /\ table' = [table EXCEPT ![k] =
                         [table[k] EXCEPT !.handle = Null, !.state = "DELETED"]]
    BY <1>5 DEF ProcessKill
  <2>2. Alive(g) /\ g # table[k].handle
    BY <2>1 DEF Deleted
  <2>3. PICK i \in Slots : Holds(i)
    BY <1>0, <2>2
  <2>4. i # k /\ table'[i] = table[i]
    BY <2>1, <2>2, <2>3
  <2>5. Holds(i)'
    BY <1>5, <2>3, <2>4 DEF ProcessKill
  <2> QED
    BY <2>5
<1>6. ASSUME NEW c \in Handles \cup {Boot}, NEW p \in Pids,
             ProcessKillSelf(c, p) \/ ProcessSuspendSelf(c, p)
      PROVE  \E i \in Slots : Holds(i)'
  <2>1. Alive(g)
    BY <1>6 DEF ProcessKillSelf, ProcessSuspendSelf, TakesLock, Runs
  <2>2. UNCHANGED <<table, owner>>
    BY <1>6 DEF ProcessKillSelf, ProcessSuspendSelf
  <2> QED
    BY <1>0, <2>1, <2>2
<1>7. ASSUME NEW c \in Handles \cup {Boot}, NEW p \in Pids,
             ProcessSuspend(c, p) \/ ProcessResume(c, p)
      PROVE  \E i \in Slots : Holds(i)'
  <2>1. PICK k \in Slots, s \in {"SUSPENDED", "READY"} :
          /\ task' = Suspended(table[k].handle) \/ task' = Resumed(table[k].handle)
          /\ table' = [table EXCEPT ![k].state = s]
    BY <1>7 DEF ProcessSuspend, ProcessResume
  <2>2. Alive(g)
    BY <2>1 DEF Suspended, Resumed
  <2>3. PICK i \in Slots : Holds(i)
    BY <1>0, <2>2
  <2>4. Holds(i)'
    BY <1>7, <2>1, <2>3 DEF ProcessSuspend, ProcessResume
  <2> QED
    BY <2>4
<1>8. CASE EnvironmentStep
  <2>1. Alive(g) /\ UNCHANGED <<table, owner>>
    BY <1>8 DEF EnvironmentStep, TaskBlocks, TaskUnblocks, TaskReturns, IdleReclaims
  <2> QED
    BY <1>0, <2>1
<1>9. CASE UNCHANGED vars
  BY <1>0, <1>9 DEF vars
<1> QED
  BY <1>1, <1>2, <1>3, <1>4, <1>5, <1>6, <1>7, <1>8, <1>9 DEF Next, Signals, EnvironmentStep

\* Pids stay distinct and killed entries stay without a handle.
LEMMA FreshInductive == TypeOK /\ UninitInv /\ FreshInv /\ [Next]_vars => FreshInv'
<1> SUFFICES ASSUME TypeOK, UninitInv, FreshInv, [Next]_vars, issued' < PidMod
             PROVE  FreshInv'
  BY DEF FreshInv
<1> USE KernelAssumption DEF TypeOK, Entry, Pids, FreshInv
<1> DEFINE Kept == \A i \in Slots :
                     /\ table'[i].pid = table[i].pid
                     /\ table'[i].handle = table[i].handle
                     /\ table[i].state = "INVALID" => table'[i].state = "INVALID"
<1>0. ASSUME Kept, UNCHANGED <<nextPid, issued, killed>>
      PROVE  FreshInv'
  <2>1. ASSUME NEW i \in Slots, NEW j \in Slots,
               table'[i].state # "INVALID", table'[j].state # "INVALID",
               table'[i].pid = table'[j].pid
        PROVE  i = j
    BY <1>0, <2>1
  <2> QED
    BY <1>0, <2>1
<1>1. CASE KernelInit
  BY <1>1 DEF KernelInit, UninitInv
<1>2. ASSUME NEW k \in Slots, NEW e \in Entry,
             FreeState(table[k].state), e.pid = nextPid,
             table' = [table EXCEPT ![k] = e],
             nextPid' = NextPid, issued' = issued + 1, killed' = killed
      PROVE  FreshInv'
  <2>1. /\ issued + 1 < PidMod
        /\ nextPid = issued + 1
        /\ nextPid' = IF issued + 2 = PidMod THEN 0 ELSE issued + 2
    BY <1>2 DEF NextPid
  <2>2. \A i \in Slots : i # k => table'[i] = table[i]
    BY <1>2
  <2>3. table'[k] = e
    BY <1>2
  <2>4. \A i \in Slots : table'[i].state # "INVALID" => table'[i].pid \in 1 .. issued'
    BY <1>2, <2>1, <2>2, <2>3
  <2>5. ASSUME NEW i \in Slots, NEW j \in Slots,
               table'[i].state # "INVALID", table'[j].state # "INVALID",
               table'[i].pid = table'[j].pid
        PROVE  i = j
    BY <1>2, <2>1, <2>2, <2>3, <2>5
  <2>6. ASSUME NEW i \in Slots, table'[i].state # "INVALID", table'[i].pid \in killed'
        PROVE  table'[i].handle = Null
    BY <1>2, <2>1, <2>2, <2>3, <2>6
  <2>7. killed' \subseteq 1 .. issued'
    BY <1>2, <2>1
  <2> QED
    BY <1>2, <2>1, <2>4, <2>5, <2>6, <2>7
<1>3. ASSUME NEW c \in Handles \cup {Boot}, NEW h \in Handles, ProcessCreate(c, h)
      PROVE  FreshInv'
  BY <1>2, <1>3 DEF ProcessCreate, IsFindSlot, ProcStates
<1>4. ASSUME NEW c \in Handles \cup {Boot}, ProcessCreateFails(c)
      PROVE  FreshInv'
  BY <1>2, <1>4 DEF ProcessCreateFails, IsFindSlot, ProcStates
<1>5. ASSUME NEW c \in Handles \cup {Boot}, ProcessList(c)
      PROVE  FreshInv'
  <2>1. Kept /\ UNCHANGED <<nextPid, issued, killed>>
    BY <1>5 DEF ProcessList, Refreshed, FreeState
  <2> QED
    BY <1>0, <2>1
<1>6. ASSUME NEW c \in Handles \cup {Boot}, NEW p \in Pids, ProcessKill(c, p)
      PROVE  FreshInv'
  <2>1. PICK k \in Slots :
          /\ table[k].pid = p /\ table[k].state # "INVALID"
          /\ table' = [table EXCEPT ![k] =
                         [table[k] EXCEPT !.handle = Null, !.state = "DELETED"]]
    BY <1>6 DEF ProcessKill, IsFindByPid, Matches
  <2>2. killed' = killed \cup {p} /\ UNCHANGED <<nextPid, issued>>
    BY <1>6 DEF ProcessKill
  <2>3. \A i \in Slots : /\ table'[i].pid = table[i].pid
                         /\ i # k => table'[i] = table[i]
                         /\ table[i].state = "INVALID" => table'[i].state = "INVALID"
    BY <2>1
  <2>4. table'[k].handle = Null
    BY <2>1
  <2> QED
    BY <2>1, <2>2, <2>3, <2>4
<1>7. ASSUME NEW c \in Handles \cup {Boot}, NEW p \in Pids,
             ProcessSuspend(c, p) \/ ProcessResume(c, p)
      PROVE  FreshInv'
  <2>1. PICK k \in Slots, s \in {"SUSPENDED", "READY"} :
          /\ table[k].state # "INVALID"
          /\ table' = [table EXCEPT ![k].state = s]
    BY <1>7 DEF ProcessSuspend, ProcessResume, IsFindByPid, Matches
  <2>2. Kept
    BY <2>1
  <2>3. UNCHANGED <<nextPid, issued, killed>>
    BY <1>7 DEF ProcessSuspend, ProcessResume
  <2> QED
    BY <1>0, <2>2, <2>3
<1>8. ASSUME NEW c \in Handles \cup {Boot}, NEW p \in Pids,
             ProcessKillSelf(c, p) \/ ProcessSuspendSelf(c, p)
      PROVE  FreshInv'
  <2>1. UNCHANGED <<table, nextPid, issued, killed>>
    BY <1>8 DEF ProcessKillSelf, ProcessSuspendSelf
  <2> QED
    BY <1>0, <2>1
<1>9. CASE EnvironmentStep
  <2>1. UNCHANGED <<table, nextPid, issued, killed>>
    BY <1>9 DEF EnvironmentStep, TaskBlocks, TaskUnblocks, TaskReturns, IdleReclaims
  <2> QED
    BY <1>0, <2>1
<1>10. CASE UNCHANGED vars
  BY <1>10 DEF vars
<1> QED
  BY <1>1, <1>3, <1>4, <1>5, <1>6, <1>7, <1>8, <1>9, <1>10 DEF Next, Signals, EnvironmentStep

\* The invariant the theorems below follow from.
LEMMA Invariance == Spec => []IInv
<1>1. Init => IInv
  <2>1. Init => FreshInv
    BY KernelAssumption DEF Init, FreshInv
  <2>2. Init => LiveTasksListed /\ UninitInv
    BY DEF Init, LiveTasksListed, UninitInv, Alive
  <2> QED
    BY <2>1, <2>2, InitType DEF IInv
<1>2. IInv /\ [Next]_vars => IInv'
  BY TypeInductive, UninitInductive, ListedInductive, FreshInductive DEF IInv
<1> QED
  BY <1>1, <1>2, PTL DEF Spec

\* No live managed task ever loses its entry, for any table size and any number
\* of tasks, signals, refreshes and failed creates.
THEOREM LiveTasksStayListed == Spec => []LiveTasksListed
BY Invariance, PTL DEF IInv

\* Until the counter wraps, pids are unique and never the failure code 0.
THEOREM PidsAreFresh == Spec => []PidsFresh
<1>1. IInv => PidsFresh
  BY DEF IInv, FreshInv, PidsFresh
<1> QED
  BY <1>1, Invariance, PTL

\* Until the counter wraps, a pid that was killed has no live task ever again.
THEOREM KilledStaysDead == Spec => []KillIsFinal
<1>1. IInv => KillIsFinal
  <2> SUFFICES ASSUME IInv, issued < PidMod, NEW h \in Handles, Alive(h)
               PROVE  owner[h] \notin killed
    BY DEF KillIsFinal
  <2>1. PICK i \in Slots : /\ table[i].handle = h
                           /\ table[i].pid = owner[h]
                           /\ ~FreeState(table[i].state)
    BY DEF IInv, LiveTasksListed
  <2> QED
    BY <2>1, KernelAssumption DEF IInv, FreshInv, FreeState
<1> QED
  BY <1>1, Invariance, PTL

-----------------------------------------------------------------------------
(* os_process_self *)

\* Entry i can be found, and it has a task handle.
Holding(i) == table[i].state # "INVALID" /\ table[i].handle # Null

\* Until a managed task deletes itself no two entries share a handle, and while the
\* mutex is free every handle in the table is that of a live task: so xTaskCreate
\* cannot return an address the table still holds.  A task that kills itself breaks
\* the second part, but then the mutex is never free again.
SelfInv ==
    ~returned =>
        /\ \A i, j \in Slots : Holding(i) /\ Holding(j) /\ table[i].handle = table[j].handle
                               => i = j
        /\ lock = Null => \A i \in Slots : Holding(i) => Alive(table[i].handle)

\* Every step keeps handles unshared.
LEMMA SelfInductive == TypeOK /\ SelfInv /\ [Next]_vars => SelfInv'
<1> SUFFICES ASSUME TypeOK, SelfInv, [Next]_vars, ~returned'
             PROVE  SelfInv'
  BY DEF SelfInv
<1>0. ~returned
  BY DEF Next, vars, KernelInit, ProcessCreate, ProcessCreateFails, ProcessList, Signals,
         ProcessKill, ProcessKillSelf, ProcessSuspend, ProcessSuspendSelf, ProcessResume,
         TaskBlocks, TaskUnblocks, TaskReturns, IdleReclaims
<1> USE KernelAssumption DEF TypeOK, Entry
<1>a. \A i, j \in Slots : Holding(i) /\ Holding(j) /\ table[i].handle = table[j].handle => i = j
  BY <1>0 DEF SelfInv
<1>b. lock = Null => \A i \in Slots : Holding(i) => Alive(table[i].handle)
  BY <1>0 DEF SelfInv
\* A step that writes no handle and revives no entry keeps handles distinct ...
<1>k. ASSUME \A i \in Slots : /\ table'[i].handle = table[i].handle
                              /\ table[i].state = "INVALID" => table'[i].state = "INVALID",
             lock' = Null => /\ lock = Null
                             /\ \A i \in Slots : Holding(i) /\ Alive(table[i].handle)
                                                 => Alive(table[i].handle)'
      PROVE  SelfInv'
  <2>1. \A i \in Slots : Holding(i)' => Holding(i)
    BY <1>k DEF Holding
  <2>2. ASSUME NEW i \in Slots, NEW j \in Slots, Holding(i)', Holding(j)',
               table'[i].handle = table'[j].handle
        PROVE  i = j
    BY <1>a, <1>k, <2>1, <2>2
  <2>3. ASSUME lock' = Null, NEW i \in Slots, Holding(i)'
        PROVE  Alive(table[i].handle)'
    BY <1>b, <1>k, <2>1, <2>3
  <2> QED
    BY <2>2, <2>3 DEF SelfInv
\* ... and so does one that writes entry k only, with a handle no other entry has.
<1>w. ASSUME NEW k \in Slots, \A i \in Slots : i # k => table'[i] = table[i],
             \A i \in Slots : i # k /\ Holding(i) /\ Holding(k)'
                              => table[i].handle # table'[k].handle,
             lock = Null, Holding(k)' => Alive(table[k].handle)',
             \A i \in Slots : i # k /\ Holding(i) => Alive(table[i].handle)'
      PROVE  SelfInv'
  <2>1. \A i \in Slots : i # k => (Holding(i)' <=> Holding(i)) /\ table'[i].handle = table[i].handle
    BY <1>w DEF Holding
  <2>2. ASSUME NEW i \in Slots, NEW j \in Slots, Holding(i)', Holding(j)',
               table'[i].handle = table'[j].handle
        PROVE  i = j
    BY <1>a, <1>w, <2>1, <2>2
  <2>3. ASSUME NEW i \in Slots, Holding(i)'
        PROVE  Alive(table[i].handle)'
    BY <1>w, <2>1, <2>3
  <2> QED
    BY <2>2, <2>3 DEF SelfInv
<1>1. CASE KernelInit
  BY <1>1 DEF KernelInit, SelfInv, Holding
<1>2. ASSUME NEW c \in Handles \cup {Boot}, NEW h \in Handles, ProcessCreate(c, h)
      PROVE  SelfInv'
  <2>1. PICK k \in Slots :
          table' = [table EXCEPT ![k] = [pid |-> nextPid, handle |-> h, state |-> "READY"]]
    BY <1>2 DEF ProcessCreate
  <2>2. lock = Null /\ task[h] = "none" /\ task' = [task EXCEPT ![h] = "ready"]
    BY <1>2 DEF ProcessCreate, TakesLock
  <2>3. table'[k].handle = h /\ \A i \in Slots : i # k => table'[i] = table[i]
    BY <2>1
  <2>4. ASSUME NEW i \in Slots, Holding(i)
        PROVE  table[i].handle # h /\ Alive(table[i].handle)'
    <3>1. Alive(table[i].handle) /\ table[i].handle \in Handles
      BY <1>b, <2>2, <2>4 DEF Holding
    <3>2. table[i].handle # h
      BY <2>2, <3>1 DEF Alive
    <3>3. CASE i = k
      BY <2>2, <2>3, <3>2, <3>3 DEF Alive
    <3>4. CASE i # k
      BY <2>2, <2>3, <3>1, <3>2, <3>4 DEF Alive
    <3> QED
      BY <3>2, <3>3, <3>4
  <2>5. Alive(table[k].handle)'
    BY <2>2, <2>3 DEF Alive
  <2> QED
    BY <1>w, <2>2, <2>3, <2>4, <2>5
<1>3. ASSUME NEW c \in Handles \cup {Boot}, ProcessCreateFails(c)
      PROVE  SelfInv'
  <2>1. PICK k \in Slots :
          table' = [table EXCEPT ![k] = [pid |-> nextPid, handle |-> Null, state |-> "INVALID"]]
    BY <1>3 DEF ProcessCreateFails
  <2>2. lock = Null /\ task' = task
    BY <1>3 DEF ProcessCreateFails, TakesLock
  <2>3. ~Holding(k)' /\ \A i \in Slots : i # k => table'[i] = table[i]
    BY <2>1 DEF Holding
  <2>4. \A i \in Slots : i # k /\ Holding(i) => Alive(table[i].handle)'
    BY <1>b, <2>2, <2>3 DEF Alive
  <2> QED
    BY <1>w, <2>2, <2>3, <2>4
<1>4. ASSUME NEW c \in Handles \cup {Boot}, ProcessList(c)
      PROVE  SelfInv'
  <2>1. \A i \in Slots : /\ table'[i].handle = table[i].handle
                         /\ table[i].state = "INVALID" => table'[i].state = "INVALID"
    BY <1>4 DEF ProcessList, Refreshed, FreeState
  <2>2. UNCHANGED <<lock, task>>
    BY <1>4 DEF ProcessList
  <2> QED
    BY <1>k, <2>1, <2>2 DEF Alive
<1>5. ASSUME NEW c \in Handles \cup {Boot}, NEW p \in Pids, ProcessKill(c, p)
      PROVE  SelfInv'
  <2>1. PICK k \in Slots :
          /\ table[k].state # "INVALID"
          /\ task' = Deleted(table[k].handle)
          /\ table' = [table EXCEPT ![k] =
                         [table[k] EXCEPT !.handle = Null, !.state = "DELETED"]]
    BY <1>5 DEF ProcessKill, IsFindByPid, Matches
  <2>2. lock = Null
    BY <1>5 DEF ProcessKill, TakesLock
  <2>3. ~Holding(k)' /\ \A i \in Slots : i # k => table'[i] = table[i]
    BY <2>1 DEF Holding
  <2>4. ASSUME NEW i \in Slots, i # k, Holding(i)
        PROVE  Alive(table[i].handle)'
    <3>1. Alive(table[i].handle) /\ table[i].handle \in Handles /\ table'[i] = table[i]
      BY <1>b, <2>2, <2>3, <2>4 DEF Holding
    <3>2. table[i].handle # table[k].handle
      BY <1>a, <2>1, <2>4 DEF Holding
    <3>3. task'[table[i].handle] = task[table[i].handle]
      BY <2>1, <3>1, <3>2 DEF Deleted
    <3> QED
      BY <3>1, <3>3 DEF Alive
  <2> QED
    BY <1>w, <2>2, <2>3, <2>4
<1>6. ASSUME NEW c \in Handles \cup {Boot}, NEW p \in Pids,
             ProcessKillSelf(c, p) \/ ProcessSuspendSelf(c, p)
      PROVE  SelfInv'
  <2>1. table' = table /\ lock' # Null
    BY <1>6 DEF ProcessKillSelf, ProcessSuspendSelf
  <2> QED
    BY <1>k, <2>1
<1>7. ASSUME NEW c \in Handles \cup {Boot}, NEW p \in Pids,
             ProcessSuspend(c, p) \/ ProcessResume(c, p)
      PROVE  SelfInv'
  <2>1. PICK k \in Slots, s \in {"SUSPENDED", "READY"} :
          /\ table[k].state # "INVALID"
          /\ task' = Suspended(table[k].handle) \/ task' = Resumed(table[k].handle)
          /\ table' = [table EXCEPT ![k].state = s]
    BY <1>7 DEF ProcessSuspend, ProcessResume, IsFindByPid, Matches
  <2>2. lock' = lock
    BY <1>7 DEF ProcessSuspend, ProcessResume
  <2>3. \A i \in Slots : /\ table'[i].handle = table[i].handle
                         /\ table[i].state = "INVALID" => table'[i].state = "INVALID"
    BY <2>1
  <2>4. ASSUME NEW i \in Slots, Holding(i), Alive(table[i].handle)
        PROVE  Alive(table[i].handle)'
    <3>1. table[i].handle \in Handles /\ table'[i].handle = table[i].handle
      BY <2>3, <2>4 DEF Holding
    <3>2. task'[table[i].handle] \in {"ready", "blocked", "suspended"}
      BY <2>1, <2>4, <3>1 DEF Suspended, Resumed, Alive
    <3> QED
      BY <3>1, <3>2 DEF Alive
  <2> QED
    BY <1>k, <2>2, <2>3, <2>4
<1>8. ASSUME NEW h \in Handles,
             TaskBlocks(h) \/ TaskUnblocks(h) \/ TaskReturns(h) \/ IdleReclaims(h)
      PROVE  SelfInv'
  <2>1. UNCHANGED <<table, lock>>
    BY <1>8 DEF TaskBlocks, TaskUnblocks, TaskReturns, IdleReclaims
  <2>2. ~TaskReturns(h)
    BY DEF TaskReturns
  <2>3. ASSUME NEW i \in Slots, Holding(i), Alive(table[i].handle)
        PROVE  Alive(table[i].handle)'
    <3>1. table[i].handle \in Handles /\ table'[i].handle = table[i].handle
      BY <2>1, <2>3 DEF Holding
    <3>2. task'[table[i].handle] \in {"ready", "blocked", "suspended"}
      BY <1>8, <2>2, <2>3, <3>1 DEF TaskBlocks, TaskUnblocks, IdleReclaims, Alive
    <3> QED
      BY <3>1, <3>2 DEF Alive
  <2> QED
    BY <1>k, <2>1, <2>3
<1>9. CASE UNCHANGED vars
  BY <1>9, <1>k DEF vars, Alive
<1> QED
  BY <1>1, <1>2, <1>3, <1>4, <1>5, <1>6, <1>7, <1>8, <1>9 DEF Next, Signals

\* As long as no managed task has deleted itself, os_process_self returns to every
\* live managed task the pid it was created with, however slots and TCB addresses are
\* used again.
THEOREM SelfPidStaysOwn == Spec => []SelfPidUntilReturn
<1>1. Init => SelfInv
  BY DEF Init, SelfInv, Holding
<1>2. IInv => TypeOK
  BY DEF IInv
<1>3. IInv /\ SelfInv => SelfPidUntilReturn
  <2> SUFFICES ASSUME IInv, SelfInv, ~returned, NEW h \in Handles, Alive(h)
               PROVE  \E i \in Slots : IsProcessSelf(i, h) /\ table[i].pid = owner[h]
    BY DEF SelfPidUntilReturn, SelfPidIsOwn
  <2>1. PICK i \in Slots : /\ table[i].handle = h
                           /\ table[i].pid = owner[h]
                           /\ ~FreeState(table[i].state)
    BY DEF IInv, LiveTasksListed
  <2>2. h # Null /\ Holding(i)
    BY <2>1, KernelAssumption DEF FreeState, Holding
  <2>3. ASSUME NEW j \in Slots, j < i, table[j].handle = h, table[j].state # "INVALID"
        PROVE  FALSE
    <3>1. i = j
      BY <2>1, <2>2, <2>3 DEF SelfInv, Holding
    <3> QED
      BY <2>3, <3>1, KernelAssumption DEF Slots
  <2>4. IsProcessSelf(i, h)
    BY <2>1, <2>2, <2>3 DEF IsProcessSelf, Holding
  <2> QED
    BY <2>1, <2>4
<1> QED
  BY <1>1, <1>2, <1>3, Invariance, SelfInductive, PTL DEF Spec
=============================================================================

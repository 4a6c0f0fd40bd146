----------------------------- MODULE IpcProofs -----------------------------
(***************************************************************************)
(* Proofs about the IPC tables, for tables of any size, any names and any  *)
(* number of callers.                                                      *)
(***************************************************************************)
EXTENDS Ipc, TLAPS

\* The first step of any function that takes the mutex.
EnterStep(c) ==
    \E op \in Entered, T \in Tables \cup {{}}, n \in Names \cup {NoName} :
        /\ Enter(c, op, T, n)
        /\ op = "deinit" => c = Tester
        /\ op \in {"delete", "get_ptr"} => pc[c].slot \in Slots

\* The steps of a caller, the first steps of all functions taken together.
LEMMA Steps ==
    ASSUME NEW c \in Callers, CallerStep(c)
    PROVE  \/ EnterStep(c) \/ Create(c) \/ CreateFails(c) \/ Find(c)
           \/ Delete(c) \/ DeleteEnds(c) \/ MsgqUse(c) \/ EventUse(c)
           \/ Use(c) \/ GetPtr(c) \/ UseEnds(c)
           \/ TearDown(c) \/ TornDown(c) \/ DeinitEnds(c) \/ IpcInit(c) \/ Panic(c)
<1>1. \A op \in Entered, T \in Tables \cup {{}}, n \in Names \cup {NoName} :
        /\ Enter(c, op, T, n)
        /\ op = "deinit" => c = Tester
        /\ op \in {"delete", "get_ptr"} => pc[c].slot \in Slots
        => EnterStep(c)
  BY Zenon DEF EnterStep
<1>2. /\ Queues \in Tables \cup {{}} /\ Events \in Tables \cup {{}}
      /\ Regions \in Tables \cup {{}} /\ {} \in Tables \cup {{}}
  BY DEF Tables
<1>3. /\ "create" \in Entered /\ "find" \in Entered /\ "delete" \in Entered
      /\ "get_ptr" \in Entered /\ "deinit" \in Entered
  BY DEF Entered
<1>4. ASSUME NEW n \in Names
      PROVE  /\ MsgqCreate(c, n) \/ EventCreate(c, n) \/ ShmCreate(c, n) => EnterStep(c)
             /\ MsgqFind(c, n) \/ EventFind(c, n) \/ ShmFind(c, n) => EnterStep(c)
  <2>1. \A T \in Tables \cup {{}} : /\ Enter(c, "create", T, n) => EnterStep(c)
                                    /\ Enter(c, "find", T, n) => EnterStep(c)
    BY <1>1, <1>3
  <2> QED
    BY <1>2, <2>1, Zenon DEF MsgqCreate, EventCreate, ShmCreate, MsgqFind, EventFind, ShmFind
<1>5. \/ MsgqDelete(c) \/ EventDelete(c) \/ ShmDelete(c) \/ ShmGetPtr(c) \/ Deinit(c)
      => EnterStep(c)
  <2>1. pc[c].slot \in Slots =>
          /\ Enter(c, "delete", {}, NoName) => EnterStep(c)
          /\ Enter(c, "get_ptr", {}, NoName) => EnterStep(c)
    BY <1>1, <1>2, <1>3
  <2>2. c = Tester => (Enter(c, "deinit", {}, NoName) => EnterStep(c))
    BY <1>1, <1>2, <1>3
  <2> QED
    BY <2>1, <2>2 DEF MsgqDelete, EventDelete, ShmDelete, ShmGetPtr, Deinit, Slots
<1> QED
  BY <1>4, <1>5, Zenon DEF CallerStep

-----------------------------------------------------------------------------
(* Types *)

LEMMA ReadyTyped ==
    \A s \in Slots \cup {0}, o \in Objects \cup {0} : Ready(s, o) \in Calls
BY DEF Ready, Calls

LEMMA EditsTyped ==
    ASSUME NEW e \in Calls
    PROVE  /\ \A op \in Entered, T \in Tables \cup {{}}, n \in Names \cup {NoName} :
                [e EXCEPT !.at = op, !.table = T, !.name = n] \in Calls
           /\ \A a \in {"checked", "deleted", "torn", "given"} : [e EXCEPT !.at = a] \in Calls
           /\ \A o \in Objects \cup {0} : [e EXCEPT !.at = "using", !.obj = o] \in Calls
BY DEF Calls

LEMMA SlotTyped ==
    /\ Unused \in Slot
    /\ \A o \in Objects, n \in Names \cup {NoName} :
         [obj |-> o, name |-> Stored(n), active |-> TRUE] \in Slot
    /\ TypeOK => \A s \in Slots : Inactive(s) \in Slot
<1>1. TypeOK => \A s \in Slots : Inactive(s) \in Slot
  BY DEF TypeOK, Inactive, Slot
<1> QED
  BY <1>1 DEF Unused, Stored, Slot

\* A caller that acts on its handle has one.
HasHandle ==
    \A c \in Callers :
        pc[c].at \in {"delete", "deleted", "get_ptr", "checked"} => pc[c].slot \in Slots

LEMMA InitTyped == Init => TypeOK /\ HasHandle
<1> SUFFICES ASSUME Init PROVE TypeOK /\ HasHandle
  OBVIOUS
<1>1. Ready(0, 0) \in Calls /\ Ready(0, 0).at = "ready"
  BY ReadyTyped DEF Ready
<1>2. pc \in [Callers -> Calls] /\ HasHandle
  BY <1>1 DEF Init, HasHandle
<1>3. slots \in [Slots -> Slot]
  BY SlotTyped DEF Init
<1> QED
  BY <1>2, <1>3 DEF Init, TypeOK

LEMMA TypeInductive == TypeOK /\ HasHandle /\ [Next]_vars => TypeOK' /\ HasHandle'
<1> SUFFICES ASSUME TypeOK, HasHandle, [Next]_vars
             PROVE  TypeOK' /\ HasHandle'
  OBVIOUS
<1>1. CASE UNCHANGED vars
  BY <1>1 DEF vars, TypeOK, HasHandle
<1>2. ASSUME NEW c \in Callers, CallerStep(c)
      PROVE  TypeOK' /\ HasHandle'
  <2> DEFINE Rest == <<inited, mutex, lock, slots, live, made, late>>
  <2>1. ASSUME NEW e \in Calls, pc' = [pc EXCEPT ![c] = e],
               e.at \in {"delete", "deleted", "get_ptr", "checked"} => e.slot \in Slots
        PROVE  pc' \in [Callers -> Calls] /\ HasHandle'
    <3>1. pc' \in [Callers -> Calls]
      BY <2>1 DEF TypeOK
    <3>2. \A d \in Callers : pc'[d] = IF d = c THEN e ELSE pc[d]
      BY <2>1 DEF TypeOK
    <3> QED
      BY <3>1, <3>2, <2>1 DEF HasHandle
  <2>2. pc[c] \in Calls /\ pc[c].slot \in Slots \cup {0} /\ pc[c].want \in Objects \cup {0}
        /\ pc[c].name \in Names \cup {NoName}
    BY DEF TypeOK, Calls
  <2>3. \A s \in Slots \cup {0}, o \in Objects \cup {0} :
          Ready(s, o) \in Calls /\ Ready(s, o).at = "ready"
    BY ReadyTyped DEF Ready
  <2>4. \A s \in Slots : slots[s] \in Slot /\ slots[s].obj \in Objects \cup {0}
    BY DEF TypeOK, Slot
  <2>5. ASSUME UNCHANGED Rest, pc' \in [Callers -> Calls]
        PROVE  TypeOK'
    BY <2>5 DEF TypeOK
  <2>6. ASSUME NEW s \in Slots \cup {0}, NEW o \in Objects \cup {0},
               pc' = [pc EXCEPT ![c] = Ready(s, o)]
        PROVE  pc' \in [Callers -> Calls] /\ HasHandle'
    BY <2>1, <2>3, <2>6
  <2>10. CASE EnterStep(c)
    <3>1. PICK op \in Entered, T \in Tables \cup {{}}, n \in Names \cup {NoName} :
            /\ Enter(c, op, T, n)
            /\ op \in {"delete", "get_ptr"} => pc[c].slot \in Slots
      BY <2>10 DEF EnterStep
    <3> DEFINE e == [pc[c] EXCEPT !.at = op, !.table = T, !.name = n]
    <3>2. e \in Calls
      BY <2>2, EditsTyped
    <3>3. e.at = op /\ e.slot = pc[c].slot
      BY <2>2 DEF Calls
    <3>4. pc' = [pc EXCEPT ![c] = e] /\ UNCHANGED Rest
      BY <3>1 DEF Enter
    <3>5. op \notin {"deleted", "checked"}
      BY DEF Entered
    <3> QED
      BY <2>1, <2>5, <3>1, <3>2, <3>3, <3>4, <3>5
  <2>11. CASE Create(c)
    <3>1. PICK s \in Slots :
            /\ slots' = [slots EXCEPT ![s] =
                 [obj |-> made + 1, name |-> Stored(pc[c].name), active |-> TRUE]]
            /\ pc' = [pc EXCEPT ![c] = Ready(s, made + 1)]
      BY <2>11 DEF Create
    <3>2. made + 1 \in Objects
      BY <2>11, IpcAssumption DEF Create, TypeOK, Objects
    <3>3. slots' \in [Slots -> Slot]
      BY <3>1, <3>2, <2>2, SlotTyped DEF TypeOK
    <3>4. pc' \in [Callers -> Calls] /\ HasHandle'
      BY <2>6, <3>1, <3>2
    <3>5. /\ live' = live \cup {made + 1} /\ made' = made + 1
          /\ late' = (late \/ ~inited)
          /\ UNCHANGED <<inited, mutex, lock>>
      BY <2>11 DEF Create
    <3> QED
      BY <3>2, <3>3, <3>4, <3>5 DEF TypeOK
  <2>12. CASE CreateFails(c)
    BY <2>12, <2>5, <2>6 DEF CreateFails
  <2>13. CASE Find(c)
    <3>1. pc[c].table \subseteq Slots
      BY DEF TypeOK, Calls, Tables, Slots
    <3>2. \/ \E s \in Slots : pc' = [pc EXCEPT ![c] = Ready(s, slots[s].obj)]
          \/ pc' = [pc EXCEPT ![c] = Ready(0, 0)]
      BY <2>13, <3>1 DEF Find
    <3>3. pc' \in [Callers -> Calls] /\ HasHandle'
      BY <3>2, <2>4, <2>6
    <3> QED
      BY <2>13, <3>3, <2>5 DEF Find
  <2>14. CASE Delete(c)
    <3>1. /\ \/ pc' = [pc EXCEPT ![c] = [pc[c] EXCEPT !.at = "deleted"]]
             \/ pc' = [pc EXCEPT ![c] = Ready(pc[c].slot, pc[c].want)]
          /\ pc[c].at = "delete" /\ lock' \in {lock, c} /\ live' \subseteq live
          /\ UNCHANGED <<inited, mutex, slots, made, late>>
      BY <2>14 DEF Delete, Takes
    <3>2. pc[c].slot \in Slots
      BY <3>1 DEF HasHandle
    <3>3. [pc[c] EXCEPT !.at = "deleted"].slot = pc[c].slot
      BY <2>2 DEF Calls
    <3>4. pc' \in [Callers -> Calls] /\ HasHandle'
      BY <2>1, <2>2, <2>6, <3>1, <3>2, <3>3, EditsTyped
    <3> QED
      BY <3>1, <3>4 DEF TypeOK
  <2>15. CASE DeleteEnds(c)
    <3>1. pc' \in [Callers -> Calls] /\ HasHandle'
      BY <2>15, <2>2, <2>6 DEF DeleteEnds
    <3>2. pc[c].slot \in Slots
      BY <2>15 DEF DeleteEnds, HasHandle
    <3>3. slots' \in [Slots -> Slot]
      BY <2>15, <3>2, SlotTyped DEF DeleteEnds, TypeOK
    <3> QED
      BY <2>15, <3>1, <3>3 DEF DeleteEnds, TypeOK
  <2>16. CASE MsgqUse(c) \/ EventUse(c)
    <3>1. pc' = [pc EXCEPT ![c] = [pc[c] EXCEPT !.at = "checked"]] /\ UNCHANGED Rest
          /\ pc[c].slot \in Slots
      BY <2>16 DEF MsgqUse, EventUse, Checks, Slots
    <3>2. [pc[c] EXCEPT !.at = "checked"].slot = pc[c].slot
      BY <2>2 DEF Calls
    <3> QED
      BY <2>1, <2>2, <2>5, <3>1, <3>2, EditsTyped
  <2>17. CASE Use(c)
    <3> DEFINE e == [pc[c] EXCEPT !.at = "using", !.obj = slots[pc[c].slot].obj]
    <3>1. pc' = [pc EXCEPT ![c] = e] /\ UNCHANGED Rest /\ pc[c].slot \in Slots
      BY <2>17 DEF Use, HasHandle
    <3>2. e \in Calls /\ e.at = "using"
      BY <2>2, <2>4, <3>1, EditsTyped DEF Calls
    <3> QED
      BY <2>1, <2>5, <3>1, <3>2
  <2>18. CASE GetPtr(c)
    <3> DEFINE e == [pc[c] EXCEPT !.at = "using", !.obj = slots[pc[c].slot].obj]
    <3>1. /\ \/ pc' = [pc EXCEPT ![c] = e]
             \/ pc' = [pc EXCEPT ![c] = Ready(pc[c].slot, pc[c].want)]
          /\ UNCHANGED Rest /\ pc[c].slot \in Slots
      BY <2>18 DEF GetPtr, HasHandle, Takes
    <3>2. e \in Calls /\ e.at = "using"
      BY <2>2, <2>4, <3>1, EditsTyped DEF Calls
    <3> QED
      BY <2>1, <2>2, <2>5, <2>6, <3>1, <3>2
  <2>19. CASE UseEnds(c)
    BY <2>19, <2>2, <2>5, <2>6 DEF UseEnds
  <2>20. CASE TearDown(c)
    <3>1. pc' = [pc EXCEPT ![c] = [pc[c] EXCEPT !.at = "torn"]]
          /\ [pc[c] EXCEPT !.at = "torn"].at = "torn"
      BY <2>20, <2>2 DEF TearDown, Calls
    <3>2. pc' \in [Callers -> Calls] /\ HasHandle'
      BY <2>1, <2>2, <3>1, EditsTyped
    <3>3. inited' = FALSE /\ lock' = c /\ live' \subseteq live
          /\ UNCHANGED <<mutex, slots, made, late>>
      BY <2>20 DEF TearDown
    <3> QED
      BY <3>2, <3>3 DEF TypeOK
  <2>21. CASE TornDown(c)
    <3>1. pc' = [pc EXCEPT ![c] = [pc[c] EXCEPT !.at = "given"]]
          /\ [pc[c] EXCEPT !.at = "given"].at = "given"
      BY <2>21, <2>2 DEF TornDown, Calls
    <3>2. pc' \in [Callers -> Calls] /\ HasHandle'
      BY <2>1, <2>2, <3>1, EditsTyped
    <3>3. slots' \in [Slots -> Slot]
      BY <2>21, SlotTyped DEF TornDown
    <3> QED
      BY <2>21, <3>2, <3>3 DEF TornDown, TypeOK
  <2>22. CASE DeinitEnds(c)
    <3>1. pc' \in [Callers -> Calls] /\ HasHandle'
      BY <2>22, <2>6 DEF DeinitEnds
    <3> QED
      BY <2>22, <3>1 DEF DeinitEnds, TypeOK
  <2>23. CASE IpcInit(c)
    <3>1. slots' \in [Slots -> Slot] /\ HasHandle'
      BY <2>23, SlotTyped DEF IpcInit, HasHandle
    <3> QED
      BY <2>23, <3>1 DEF IpcInit, TypeOK
  <2>24. CASE Panic(c)
    <3>1. pc' = [d \in Callers |-> Ready(0, 0)]
      BY <2>24 DEF Panic
    <3>2. pc' \in [Callers -> Calls] /\ HasHandle'
      BY <3>1, <2>3 DEF HasHandle
    <3>3. slots' \in [Slots -> Slot]
      BY <2>24, SlotTyped DEF Panic
    <3> QED
      BY <2>24, <3>2, <3>3 DEF Panic, TypeOK
  <2> QED
    BY <1>2, Steps, <2>10, <2>11, <2>12, <2>13, <2>14, <2>15, <2>16, <2>17, <2>18, <2>19,
       <2>20, <2>21, <2>22, <2>23, <2>24
<1> QED
  BY <1>1, <1>2 DEF Next

\* Every field of the tables and of the callers' handles keeps its type.
THEOREM TypeCorrect == Spec => []TypeOK
<1>1. TypeOK /\ HasHandle /\ [Next]_vars => (TypeOK /\ HasHandle)'
  BY TypeInductive
<1> QED
  BY InitTyped, <1>1, PTL DEF Spec

-----------------------------------------------------------------------------
(* The inductive invariant *)

\* Objects not made yet are nowhere.
Fresh ==
    /\ \A o \in live : o <= made
    /\ \A s \in Slots : slots[s].obj <= made
    /\ \A c \in Callers : pc[c].want <= made

\* Only the tester tears down, and s_initialized is false from then on.
Roles ==
    \A c \in Callers : /\ pc[c].at \in {"deinit", "torn", "given"} => c = Tester
                       /\ pc[c].at \in {"torn", "given"} => ~inited

\* Who is between deleting objects and clearing flags has the mutex.
Locked ==
    ~late => \A c \in Callers : pc[c].at \in {"deleted", "torn"} => lock = c /\ mutex

\* After the teardown there are no active slots.
Down == ~late /\ ~inited => pc[Tester].at = "torn" \/ \A s \in Slots : ~slots[s].active

\* The flags yet to be cleared are those of objects that are gone.
Gone ==
    ~late => \A c \in Callers :
        /\ pc[c].at = "deleted" => slots[pc[c].slot].active /\ slots[pc[c].slot].obj \notin live
        /\ pc[c].at = "torn" => live = {}

\* The slot a handle points to is not given away while the object exists.
HandleInv ==
    ~late => \A c \in Callers : pc[c].want \in live =>
        /\ pc[c].slot \in Slots /\ slots[pc[c].slot].active
        /\ slots[pc[c].slot].obj = pc[c].want
        /\ pc[c].at = "using" => pc[c].obj = pc[c].want

SafeInv == Fresh /\ Roles /\ Locked /\ Down /\ Gone /\ ObjectsOwned /\ HandleInv

\* Steps that change nothing but what the caller knows.
LEMMA LocalStep ==
    ASSUME TypeOK, SafeInv, NEW c \in Callers, NEW e \in Calls,
           pc' = [pc EXCEPT ![c] = e],
           UNCHANGED <<inited, mutex, lock, slots, live, made, late>>,
           pc[c].at \notin {"deleted", "torn", "given"},
           e.at \notin {"deleted", "torn", "given"},
           e.at = "deinit" => c = Tester,
           e.want <= made,
           ~late /\ e.want \in live =>
                /\ e.slot \in Slots /\ slots[e.slot].active /\ slots[e.slot].obj = e.want
                /\ e.at = "using" => e.obj = e.want
    PROVE  SafeInv'
<1>1. \A d \in Callers : pc'[d] = IF d = c THEN e ELSE pc[d]
  BY DEF TypeOK
<1>2. Fresh'
  BY <1>1 DEF SafeInv, Fresh
<1>3. Roles'
  BY <1>1 DEF SafeInv, Roles
<1>4. Locked'
  BY <1>1 DEF SafeInv, Locked
<1>5. Down'
  BY <1>1, IpcAssumption DEF SafeInv, Down
<1>6. Gone'
  BY <1>1 DEF SafeInv, Gone
<1>7. \A s \in Slots : Closing(s)' <=> Closing(s)
  BY <1>1 DEF Closing
<1>8. ObjectsOwned'
  BY <1>7 DEF SafeInv, ObjectsOwned
<1>9. HandleInv'
  BY <1>1 DEF SafeInv, HandleInv
<1> QED
  BY <1>2, <1>3, <1>4, <1>5, <1>6, <1>8, <1>9 DEF SafeInv

\* The caller's call ends and it keeps its handle, or has none.
LEMMA ReadyStep ==
    ASSUME TypeOK, SafeInv, NEW c \in Callers,
           \/ pc' = [pc EXCEPT ![c] = Ready(0, 0)]
           \/ pc' = [pc EXCEPT ![c] = Ready(pc[c].slot, pc[c].want)],
           UNCHANGED <<inited, mutex, lock, slots, live, made, late>>,
           pc[c].at \notin {"deleted", "torn", "given"}
    PROVE  SafeInv'
<1>1. pc[c].slot \in Slots \cup {0} /\ pc[c].want \in Objects \cup {0}
  BY DEF TypeOK, Calls
<1>2. 0 \notin live /\ 0 <= made /\ pc[c].want <= made
  BY IpcAssumption DEF TypeOK, Objects, SafeInv, Fresh
<1>3. ASSUME NEW s \in Slots \cup {0}, NEW o \in Objects \cup {0}, NEW e,
             e = Ready(s, o), pc' = [pc EXCEPT ![c] = e], o <= made,
             ~late /\ o \in live => s \in Slots /\ slots[s].active /\ slots[s].obj = o
      PROVE  SafeInv'
  <2>1. e \in Calls /\ e.at = "ready" /\ e.slot = s /\ e.want = o
    BY <1>3, ReadyTyped DEF Ready
  <2>2. /\ e.at \notin {"deleted", "torn", "given"}
        /\ e.at # "deinit" /\ e.at # "using" /\ e.want <= made
    BY <1>3, <2>1
  <2> QED
    BY <1>3, <2>1, <2>2, LocalStep, Zenon
<1>4. CASE pc' = [pc EXCEPT ![c] = Ready(0, 0)]
  <2>1. 0 \in Slots \cup {0} /\ 0 \in Objects \cup {0}
    OBVIOUS
  <2> QED
    BY <1>2, <1>3, <1>4, <2>1, Zenon
<1>5. CASE pc' = [pc EXCEPT ![c] = Ready(pc[c].slot, pc[c].want)]
  <2>1. ~late /\ pc[c].want \in live =>
          pc[c].slot \in Slots /\ slots[pc[c].slot].active /\ slots[pc[c].slot].obj = pc[c].want
    BY DEF SafeInv, HandleInv
  <2> QED
    BY <1>1, <1>2, <1>3, <1>5, <2>1, Zenon
<1> QED
  BY <1>4, <1>5

\* os_msgq_create and its like put a new object into an inactive slot.
LEMMA CreateSafe ==
    ASSUME TypeOK, TypeOK', SafeInv, NEW c \in Callers, Create(c)
    PROVE  SafeInv'
<1>1. PICK s \in Slots :
        /\ ~slots[s].active
        /\ slots' = [slots EXCEPT ![s] =
             [obj |-> made + 1, name |-> Stored(pc[c].name), active |-> TRUE]]
        /\ pc' = [pc EXCEPT ![c] = Ready(s, made + 1)]
  BY DEF Create, IsFree
<1>2. /\ pc[c].at = "create" /\ mutex /\ lock = Nobody
      /\ live' = live \cup {made + 1} /\ made' = made + 1
      /\ late' = (late \/ ~inited)
      /\ UNCHANGED <<inited, mutex, lock>>
  BY DEF Create, Takes
<1>3. made \in Nat /\ made + 1 \notin live /\ made + 1 <= made' /\ live \subseteq Nat
  BY <1>2, IpcAssumption DEF SafeInv, Fresh, TypeOK, Objects
<1>4. \A t \in Slots : slots'[t] = IF t = s
         THEN [obj |-> made + 1, name |-> Stored(pc[c].name), active |-> TRUE] ELSE slots[t]
  BY <1>1 DEF TypeOK
<1>5. /\ slots'[s].obj = made + 1 /\ slots'[s].active
      /\ \A t \in Slots : t # s => slots'[t] = slots[t]
  BY <1>4
<1>6. \A t \in Slots : slots[t].obj \in Nat /\ slots[t].obj <= made
  BY IpcAssumption DEF SafeInv, Fresh, TypeOK, Slot, Objects
<1>7. /\ pc'[c].at = "ready" /\ pc'[c].slot = s /\ pc'[c].want = made + 1
      /\ \A d \in Callers : d # c => pc'[d] = pc[d]
  BY <1>1 DEF TypeOK, Ready
<1>8. ~late => \A d \in Callers : pc[d].at \notin {"deleted", "torn"}
  BY <1>2, IpcAssumption DEF SafeInv, Locked
<1>8a. \A d \in Callers : pc[d].want \in Nat /\ pc[d].want <= made
  BY IpcAssumption DEF SafeInv, Fresh, TypeOK, Calls, Objects
<1>9. Fresh'
  <2>1. \A o \in live' : o <= made'
    BY <1>2, <1>3 DEF SafeInv, Fresh
  <2>2. \A t \in Slots : slots'[t].obj <= made'
    BY <1>2, <1>3, <1>5, <1>6
  <2>3. \A d \in Callers : pc'[d].want <= made'
    BY <1>2, <1>3, <1>7, <1>8a
  <2> QED
    BY <2>1, <2>2, <2>3 DEF Fresh
<1>10. Roles'
  BY <1>2, <1>7 DEF SafeInv, Roles
<1>11. Locked' /\ Gone'
  <2>1. ~late' => \A d \in Callers : pc'[d].at \notin {"deleted", "torn"}
    BY <1>2, <1>7, <1>8
  <2> QED
    BY <2>1 DEF Locked, Gone
<1>12. Down'
  BY <1>2 DEF Down
<1>13. ObjectsOwned'
  <2> SUFFICES ASSUME ~late'
               PROVE  /\ \A o \in live' : \E t \in Slots : slots'[t].active /\ slots'[t].obj = o
                      /\ \A t \in Slots : slots'[t].active => slots'[t].obj \in live'
                      /\ \A t, u \in Slots :
                           /\ slots'[t].active /\ slots'[u].active
                           /\ slots'[t].obj = slots'[u].obj
                           => t = u
    BY DEF ObjectsOwned
  <2>1. ~late
    BY <1>2
  <2>2. \A t \in Slots : slots[t].active => slots[t].obj \in live
    BY <1>8, <2>1 DEF SafeInv, ObjectsOwned, Closing
  <2>3. \A o \in live : \E t \in Slots : slots[t].active /\ slots[t].obj = o
    BY <2>1 DEF SafeInv, ObjectsOwned
  <2>4. ASSUME NEW o \in live'
        PROVE  \E t \in Slots : slots'[t].active /\ slots'[t].obj = o
    <3>1. CASE o = made + 1
      BY <1>5, <3>1
    <3>2. CASE o \in live
      <4>1. PICK t \in Slots : slots[t].active /\ slots[t].obj = o
        BY <2>3, <3>2
      <4> QED
        BY <1>1, <1>5, <4>1
    <3> QED
      BY <1>2, <3>1, <3>2
  <2>5. \A t \in Slots : slots'[t].active => slots'[t].obj \in live'
    BY <1>2, <1>5, <2>2
  <2>6. ASSUME NEW t \in Slots, NEW u \in Slots, slots'[t].active, slots'[u].active,
               slots'[t].obj = slots'[u].obj
        PROVE  t = u
    <3>1. CASE t # s /\ u # s
      BY <1>5, <2>1, <2>6, <3>1 DEF SafeInv, ObjectsOwned
    <3>2. CASE t # s /\ u = s
      BY <1>3, <1>5, <2>2, <2>6, <3>2
    <3>3. CASE t = s /\ u # s
      BY <1>3, <1>5, <2>2, <2>6, <3>3
    <3> QED
      BY <3>1, <3>2, <3>3
  <2> QED
    BY <2>4, <2>5, <2>6
<1>14. HandleInv'
  <2> SUFFICES ASSUME ~late', NEW d \in Callers, pc'[d].want \in live'
               PROVE  /\ pc'[d].slot \in Slots /\ slots'[pc'[d].slot].active
                      /\ slots'[pc'[d].slot].obj = pc'[d].want
                      /\ pc'[d].at = "using" => pc'[d].obj = pc'[d].want
    BY DEF HandleInv
  <2>1. ~late
    BY <1>2
  <2>2. CASE d = c
    BY <1>5, <1>7, <2>2
  <2>3. CASE d # c /\ pc[d].want \in live
    <3>1. /\ pc[d].slot \in Slots /\ slots[pc[d].slot].active
          /\ slots[pc[d].slot].obj = pc[d].want
          /\ pc[d].at = "using" => pc[d].obj = pc[d].want
      BY <2>1, <2>3 DEF SafeInv, HandleInv
    <3> QED
      BY <1>1, <1>5, <1>7, <2>3, <3>1
  <2>4. pc[d].want # made + 1
    BY <1>3, <1>8a
  <2> QED
    BY <1>2, <1>7, <2>2, <2>3, <2>4
<1> QED
  BY <1>9, <1>10, <1>11, <1>12, <1>13, <1>14 DEF SafeInv

\* The first half of a delete that finds its slot active.
LEMMA DeleteSafe ==
    ASSUME TypeOK, HasHandle, SafeInv, NEW c \in Callers, Delete(c), slots[pc[c].slot].active
    PROVE  SafeInv'
<1> DEFINE s == pc[c].slot
<1>1. /\ pc[c].at = "delete" /\ mutex /\ lock = Nobody
      /\ live' = live \ {slots[s].obj} /\ lock' = c
      /\ pc' = [pc EXCEPT ![c] = [pc[c] EXCEPT !.at = "deleted"]]
      /\ UNCHANGED <<inited, mutex, slots, made, late>>
  BY DEF Delete, Takes
<1>2. s \in Slots /\ pc[c] \in Calls
  BY <1>1 DEF HasHandle, TypeOK
<1>3. /\ pc'[c].at = "deleted" /\ pc'[c].slot = s /\ pc'[c].want = pc[c].want
      /\ \A d \in Callers : d # c => pc'[d] = pc[d]
  BY <1>1, <1>2 DEF TypeOK, Calls
<1>4. ~late => \A d \in Callers : pc[d].at \notin {"deleted", "torn"}
  BY <1>1, IpcAssumption DEF SafeInv, Locked
<1>5. Fresh'
  BY <1>1, <1>3 DEF SafeInv, Fresh
<1>6. Roles'
  BY <1>1, <1>3 DEF SafeInv, Roles
<1>7. Locked'
  BY <1>1, <1>3, <1>4 DEF Locked
<1>8. Down'
  <2>1. ~late /\ ~inited => \A t \in Slots : ~slots[t].active
    BY <1>4, IpcAssumption DEF SafeInv, Down
  <2> QED
    BY <1>1, <2>1 DEF Down
<1>9. Gone'
  BY <1>1, <1>3, <1>4 DEF Gone
<1>10. ObjectsOwned'
  <2> SUFFICES ASSUME ~late
               PROVE  /\ \A o \in live' : \E t \in Slots : slots[t].active /\ slots[t].obj = o
                      /\ \A t \in Slots :
                           slots[t].active => slots[t].obj \in live' \/ Closing(t)'
                      /\ \A t, u \in Slots :
                           slots[t].active /\ slots[u].active /\ slots[t].obj = slots[u].obj
                           => t = u
    BY <1>1 DEF ObjectsOwned
  <2>1. \A t \in Slots : slots[t].active => slots[t].obj \in live
    BY <1>4 DEF SafeInv, ObjectsOwned, Closing
  <2>2. \A t \in Slots : t = s => Closing(t)'
    BY <1>3 DEF Closing
  <2>3. \A t, u \in Slots :
          slots[t].active /\ slots[u].active /\ slots[t].obj = slots[u].obj => t = u
    BY DEF SafeInv, ObjectsOwned
  <2>4. \A t \in Slots : slots[t].active => slots[t].obj \in live' \/ t = s
    BY <1>1, <1>2, <2>1, <2>3
  <2>5. \A o \in live' : \E t \in Slots : slots[t].active /\ slots[t].obj = o
    BY <1>1 DEF SafeInv, ObjectsOwned
  <2> QED
    BY <2>2, <2>3, <2>4, <2>5
<1>11. HandleInv'
  BY <1>1, <1>3 DEF SafeInv, HandleInv
<1> QED
  BY <1>5, <1>6, <1>7, <1>8, <1>9, <1>10, <1>11 DEF SafeInv

\* The second half of a delete.
LEMMA DeleteEndsSafe ==
    ASSUME TypeOK, HasHandle, SafeInv, NEW c \in Callers, DeleteEnds(c)
    PROVE  SafeInv'
<1> DEFINE s == pc[c].slot
<1>1. /\ pc[c].at = "deleted"
      /\ slots' = [slots EXCEPT ![s] = Inactive(s)]
      /\ lock' = IF lock = c THEN Nobody ELSE lock
      /\ pc' = [pc EXCEPT ![c] = Ready(s, pc[c].want)]
      /\ UNCHANGED <<inited, mutex, live, made, late>>
  BY DEF DeleteEnds
<1>2. s \in Slots
  BY <1>1 DEF HasHandle
<1>3. /\ pc'[c].at = "ready" /\ pc'[c].slot = s /\ pc'[c].want = pc[c].want
      /\ \A d \in Callers : d # c => pc'[d] = pc[d]
  BY <1>1 DEF TypeOK, Ready
<1>4. /\ slots[s] \in Slot /\ slots'[s] = Inactive(s)
      /\ \A t \in Slots : t # s => slots'[t] = slots[t]
  BY <1>1, <1>2 DEF TypeOK
<1>5. ~slots'[s].active /\ slots'[s].obj \in {0, slots[s].obj}
  BY <1>4 DEF Inactive, Slot
<1>6. ~late => /\ lock = c /\ slots[s].active /\ slots[s].obj \notin live
               /\ \A d \in Callers : d # c => pc[d].at \notin {"deleted", "torn"}
  BY <1>1 DEF SafeInv, Locked, Gone
<1>7. Fresh'
  <2>1. made \in Nat
    BY IpcAssumption DEF TypeOK, Objects
  <2>2. \A t \in Slots : slots'[t].obj <= made
    BY <1>2, <1>4, <1>5, <2>1 DEF SafeInv, Fresh
  <2> QED
    BY <1>1, <1>3, <2>2 DEF SafeInv, Fresh
<1>8. Roles'
  BY <1>1, <1>3 DEF SafeInv, Roles
<1>9. Locked' /\ Gone'
  <2>1. ~late' => \A d \in Callers : pc'[d].at \notin {"deleted", "torn"}
    BY <1>1, <1>3, <1>6
  <2> QED
    BY <2>1 DEF Locked, Gone
<1>10. Down'
  <2>1. ~late => pc[Tester].at # "torn"
    BY <1>1, <1>6, IpcAssumption
  <2>2. ~late => inited
    BY <1>2, <1>6, <2>1 DEF SafeInv, Down
  <2> QED
    BY <1>1, <2>2 DEF Down
<1>11. ObjectsOwned'
  <2> SUFFICES ASSUME ~late
               PROVE  /\ \A o \in live : \E t \in Slots : slots'[t].active /\ slots'[t].obj = o
                      /\ \A t \in Slots : slots'[t].active => slots'[t].obj \in live
                      /\ \A t, u \in Slots :
                           /\ slots'[t].active /\ slots'[u].active
                           /\ slots'[t].obj = slots'[u].obj
                           => t = u
    BY <1>1 DEF ObjectsOwned
  <2>1. \A t \in Slots : slots'[t].active => t # s /\ slots'[t] = slots[t]
    BY <1>4, <1>5
  <2>2. \A t \in Slots : slots[t].active /\ t # s => slots[t].obj \in live
    BY <1>1, <1>6 DEF SafeInv, ObjectsOwned, Closing
  <2>3. ASSUME NEW o \in live
        PROVE  \E t \in Slots : slots'[t].active /\ slots'[t].obj = o
    <3>1. PICK t \in Slots : slots[t].active /\ slots[t].obj = o
      BY DEF SafeInv, ObjectsOwned
    <3> QED
      BY <1>4, <1>6, <3>1
  <2>4. \A t, u \in Slots :
          slots[t].active /\ slots[u].active /\ slots[t].obj = slots[u].obj => t = u
    BY DEF SafeInv, ObjectsOwned
  <2> QED
    BY <2>1, <2>2, <2>3, <2>4
<1>12. HandleInv'
  <2>1. ~late => \A d \in Callers : pc[d].want \in live => pc[d].slot # s
    BY <1>6 DEF SafeInv, HandleInv
  <2> QED
    BY <1>1, <1>3, <1>4, <2>1 DEF SafeInv, HandleInv
<1> QED
  BY <1>7, <1>8, <1>9, <1>10, <1>11, <1>12 DEF SafeInv

\* os_ipc_deinit deletes all objects ...
LEMMA TearDownSafe ==
    ASSUME TypeOK, SafeInv, NEW c \in Callers, TearDown(c)
    PROVE  SafeInv'
<1>1. /\ pc[c].at = "deinit" /\ mutex /\ lock = Nobody
      /\ ~inited' /\ lock' = c
      /\ live' = live \ {slots[s].obj : s \in {t \in Slots : slots[t].active}}
      /\ pc' = [pc EXCEPT ![c] = [pc[c] EXCEPT !.at = "torn"]]
      /\ UNCHANGED <<mutex, slots, made, late>>
  BY DEF TearDown, Takes
<1>2. pc[c] \in Calls /\ c = Tester
  BY <1>1 DEF TypeOK, SafeInv, Roles
<1>3. /\ pc'[c].at = "torn" /\ pc'[c].want = pc[c].want
      /\ \A d \in Callers : d # c => pc'[d] = pc[d]
  BY <1>1, <1>2 DEF TypeOK, Calls
<1>4. ~late => \A d \in Callers : pc[d].at \notin {"deleted", "torn"}
  BY <1>1, IpcAssumption DEF SafeInv, Locked
<1>5. ~late => live' = {}
  BY <1>1 DEF SafeInv, ObjectsOwned
<1>6. Fresh'
  BY <1>1, <1>3 DEF SafeInv, Fresh
<1>7. Roles'
  BY <1>1, <1>2, <1>3 DEF SafeInv, Roles
<1>8. Locked' /\ Gone'
  BY <1>1, <1>3, <1>4, <1>5 DEF Locked, Gone
<1>9. Down'
  BY <1>2, <1>3 DEF Down
<1>10. ObjectsOwned'
  <2>1. \A s \in Slots : Closing(s)'
    BY <1>3 DEF Closing
  <2> QED
    BY <1>1, <1>5, <2>1 DEF SafeInv, ObjectsOwned
<1>11. HandleInv'
  BY <1>1, <1>5 DEF HandleInv
<1> QED
  BY <1>6, <1>7, <1>8, <1>9, <1>10, <1>11 DEF SafeInv

\* ... marks the slots inactive ...
LEMMA TornDownSafe ==
    ASSUME TypeOK, SafeInv, NEW c \in Callers, TornDown(c)
    PROVE  SafeInv'
<1>1. /\ pc[c].at = "torn"
      /\ slots' = [s \in Slots |-> Inactive(s)]
      /\ pc' = [pc EXCEPT ![c] = [pc[c] EXCEPT !.at = "given"]]
      /\ UNCHANGED <<inited, mutex, live, made, late>>
  BY DEF TornDown
<1>2. pc[c] \in Calls /\ c = Tester
  BY <1>1 DEF TypeOK, SafeInv, Roles
<1>3. /\ pc'[c].at = "given" /\ pc'[c].want = pc[c].want
      /\ \A d \in Callers : d # c => pc'[d] = pc[d]
  BY <1>1, <1>2 DEF TypeOK, Calls
<1>4. \A s \in Slots : slots'[s].active = FALSE /\ slots'[s].obj \in {0, slots[s].obj}
  BY <1>1 DEF Inactive, Slot, TypeOK
<1>5. ~late => /\ live = {}
               /\ \A d \in Callers : d # c => pc[d].at \notin {"deleted", "torn"}
  BY <1>1 DEF SafeInv, Locked, Gone
<1>6. Fresh'
  <2>1. made \in Nat
    BY IpcAssumption DEF TypeOK, Objects
  <2>2. \A t \in Slots : slots'[t].obj <= made
    BY <1>4, <2>1 DEF SafeInv, Fresh
  <2> QED
    BY <1>1, <1>3, <2>2 DEF SafeInv, Fresh
<1>7. Roles'
  BY <1>1, <1>2, <1>3 DEF SafeInv, Roles
<1>8. Locked' /\ Gone'
  BY <1>1, <1>3, <1>5 DEF Locked, Gone
<1>9. Down'
  BY <1>4 DEF Down
<1>10. ObjectsOwned' /\ HandleInv'
  BY <1>1, <1>4, <1>5 DEF ObjectsOwned, HandleInv
<1> QED
  BY <1>6, <1>7, <1>8, <1>9, <1>10 DEF SafeInv

\* ... and deletes the mutex.
LEMMA DeinitEndsSafe ==
    ASSUME TypeOK, HasHandle, SafeInv, NEW c \in Callers, DeinitEnds(c)
    PROVE  SafeInv'
<1>1. /\ pc[c].at = "given"
      /\ pc' = [pc EXCEPT ![c] = Ready(0, 0)]
      /\ UNCHANGED <<inited, slots, live, made, late>>
  BY DEF DeinitEnds
<1>2. /\ pc'[c].at = "ready" /\ pc'[c].want = 0
      /\ \A d \in Callers : d # c => pc'[d] = pc[d]
  BY <1>1 DEF TypeOK, Ready
<1>3. c = Tester /\ ~inited
  BY <1>1 DEF SafeInv, Roles
<1>4. ~late => \A s \in Slots : ~slots[s].active
  BY <1>1, <1>3 DEF SafeInv, Down
<1>5. ~late => live = {}
  BY <1>4 DEF SafeInv, ObjectsOwned
<1>6. ~late' => \A d \in Callers : pc'[d].at \notin {"deleted", "torn"}
  <2>1. ~late => \A d \in Callers : pc[d].at # "deleted"
    BY <1>4 DEF SafeInv, Gone, HasHandle
  <2>2. \A d \in Callers : d # c => pc[d].at # "torn"
    BY <1>3 DEF SafeInv, Roles
  <2> QED
    BY <1>1, <1>2, <2>1, <2>2
<1>7. Fresh'
  BY <1>1, <1>2, IpcAssumption DEF SafeInv, Fresh, TypeOK, Objects
<1>8. Roles'
  BY <1>1, <1>2 DEF SafeInv, Roles
<1>9. Locked' /\ Gone'
  BY <1>6 DEF Locked, Gone
<1>10. Down' /\ ObjectsOwned' /\ HandleInv'
  BY <1>1, <1>4, <1>5 DEF Down, ObjectsOwned, HandleInv
<1> QED
  BY <1>7, <1>8, <1>9, <1>10 DEF SafeInv

LEMMA RestartSafe ==
    /\ Init => SafeInv
    /\ \A c \in Callers : Panic(c) => SafeInv'
<1>1. Ready(0, 0).at = "ready" /\ Ready(0, 0).want = 0 /\ Unused.obj = 0 /\ Unused.active = FALSE
  BY DEF Ready, Unused
<1>2. ASSUME Init PROVE SafeInv
  <2>1. /\ \A d \in Callers : pc[d].at = "ready" /\ pc[d].want = 0
        /\ \A s \in Slots : slots[s].obj = 0 /\ slots[s].active = FALSE
        /\ inited /\ live = {} /\ made = 0
    BY <1>1, <1>2 DEF Init
  <2> QED
    BY <2>1 DEF SafeInv, Fresh, Roles, Locked, Down, Gone, ObjectsOwned, HandleInv
<1>3. ASSUME NEW c \in Callers, Panic(c) PROVE SafeInv'
  <2>1. /\ \A d \in Callers : pc'[d].at = "ready" /\ pc'[d].want = 0
        /\ \A s \in Slots : slots'[s].obj = 0 /\ slots'[s].active = FALSE
        /\ inited' /\ live' = {} /\ made' = 0
    BY <1>1, <1>3 DEF Panic
  <2> QED
    BY <2>1 DEF SafeInv, Fresh, Roles, Locked, Down, Gone, ObjectsOwned, HandleInv
<1> QED
  BY <1>2, <1>3

\* os_ipc_init after a teardown forgets nothing.
LEMMA IpcInitSafe ==
    ASSUME TypeOK, HasHandle, SafeInv, NEW c \in Callers, IpcInit(c)
    PROVE  SafeInv'
<1>1. /\ c = Tester /\ pc[c].at = "ready" /\ ~inited /\ inited'
      /\ slots' = [s \in Slots |-> Unused]
      /\ UNCHANGED <<pc, live, made, late>>
  BY DEF IpcInit
<1>2. \A s \in Slots : slots'[s].obj = 0 /\ slots'[s].active = FALSE
  BY <1>1 DEF Unused
<1>3. ~late => \A s \in Slots : ~slots[s].active
  BY <1>1 DEF SafeInv, Down
<1>4. ~late => live = {}
  BY <1>3 DEF SafeInv, ObjectsOwned
<1>5. ~late => \A d \in Callers : pc[d].at \notin {"deleted", "torn"}
  BY <1>1, <1>3 DEF SafeInv, Gone, Roles, HasHandle
<1>6. Fresh'
  BY <1>1, <1>2, IpcAssumption DEF SafeInv, Fresh, TypeOK, Objects
<1>7. Roles'
  <2>1. \A d \in Callers : pc[d].at \notin {"torn", "given"}
    BY <1>1 DEF SafeInv, Roles
  <2> QED
    BY <1>1, <2>1 DEF SafeInv, Roles
<1>8. Locked' /\ Gone'
  BY <1>1, <1>5 DEF Locked, Gone
<1>9. Down' /\ ObjectsOwned' /\ HandleInv'
  BY <1>1, <1>2, <1>4 DEF Down, ObjectsOwned, HandleInv
<1> QED
  BY <1>6, <1>7, <1>8, <1>9 DEF SafeInv

LEMMA SafeInductive ==
    TypeOK /\ TypeOK' /\ HasHandle /\ SafeInv /\ [Next]_vars => SafeInv'
<1> SUFFICES ASSUME TypeOK, TypeOK', HasHandle, SafeInv, [Next]_vars
             PROVE  SafeInv'
  OBVIOUS
<1>1. CASE UNCHANGED vars
  BY <1>1 DEF vars, SafeInv, Fresh, Roles, Locked, Down, Gone, ObjectsOwned, Closing, HandleInv
<1>2. ASSUME NEW c \in Callers, CallerStep(c)
      PROVE  SafeInv'
  <2> DEFINE Rest == <<inited, mutex, lock, slots, live, made, late>>
  <2>1. /\ pc[c] \in Calls /\ pc[c].want <= made
        /\ ~late /\ pc[c].want \in live =>
             pc[c].slot \in Slots /\ slots[pc[c].slot].active
             /\ slots[pc[c].slot].obj = pc[c].want
    BY DEF TypeOK, SafeInv, Fresh, HandleInv
  <2>2. ASSUME NEW e \in Calls, pc' = [pc EXCEPT ![c] = e], UNCHANGED Rest,
               pc[c].at \notin {"deleted", "torn", "given"},
               e.at \notin {"deleted", "torn", "given"},
               e.at = "deinit" => c = Tester,
               e.slot = pc[c].slot, e.want = pc[c].want,
               e.at = "using" => e.obj = slots[pc[c].slot].obj
        PROVE  SafeInv'
    <3>1. /\ e.want <= made
          /\ ~late /\ e.want \in live =>
               /\ e.slot \in Slots /\ slots[e.slot].active /\ slots[e.slot].obj = e.want
               /\ e.at = "using" => e.obj = e.want
      BY <2>1, <2>2
    <3> QED
      BY <2>2, <3>1, LocalStep, Zenon
  <2>10. CASE EnterStep(c)
    <3>1. PICK op \in Entered, T \in Tables \cup {{}}, n \in Names \cup {NoName} :
            Enter(c, op, T, n) /\ (op = "deinit" => c = Tester)
      BY <2>10 DEF EnterStep
    <3>2. PICK e : e = [pc[c] EXCEPT !.at = op, !.table = T, !.name = n]
      OBVIOUS
    <3>3. e \in Calls
      BY <2>1, <3>2, EditsTyped
    <3>4. e.at = op /\ e.slot = pc[c].slot /\ e.want = pc[c].want
      BY <2>1, <3>2 DEF Calls
    <3>5. op \notin {"deleted", "torn", "given", "using"}
      BY DEF Entered
    <3>6. pc' = [pc EXCEPT ![c] = e] /\ UNCHANGED Rest /\ pc[c].at = "ready"
      BY <3>1, <3>2 DEF Enter
    <3> QED
      BY <2>2, <3>1, <3>3, <3>4, <3>5, <3>6
  <2>11. CASE Create(c)
    BY <2>11, CreateSafe
  <2>12. CASE CreateFails(c) \/ UseEnds(c)
    BY <2>12, ReadyStep DEF CreateFails, UseEnds, Takes
  <2>13. CASE Find(c)
    <3>1. pc[c].table \subseteq Slots /\ pc[c].at = "find" /\ UNCHANGED Rest
      BY <2>13 DEF Find, Takes, TypeOK, Calls, Tables, Slots
    <3>2. CASE pc' = [pc EXCEPT ![c] = Ready(0, 0)]
      BY <3>1, <3>2, ReadyStep
    <3>3. ASSUME NEW s \in Slots, slots[s].active,
                 pc' = [pc EXCEPT ![c] = Ready(s, slots[s].obj)]
          PROVE  SafeInv'
      <4>1. PICK e : e = Ready(s, slots[s].obj)
        OBVIOUS
      <4>2. slots[s].obj \in Objects \cup {0} /\ slots[s].obj <= made
        BY DEF TypeOK, Slot, SafeInv, Fresh
      <4>3. e \in Calls /\ e.at = "ready" /\ e.slot = s /\ e.want = slots[s].obj
        BY <4>1, <4>2, ReadyTyped DEF Ready
      <4>4. pc' = [pc EXCEPT ![c] = e]
        BY <3>3, <4>1
      <4>5. /\ e.at \notin {"deleted", "torn", "given"} /\ e.at # "deinit" /\ e.at # "using"
            /\ e.want <= made /\ pc[c].at \notin {"deleted", "torn", "given"}
            /\ e.slot \in Slots /\ slots[e.slot].active /\ slots[e.slot].obj = e.want
        BY <3>1, <3>3, <4>2, <4>3
      <4> QED
        BY <3>1, <4>3, <4>4, <4>5, LocalStep, Zenon
    <3>4. \/ pc' = [pc EXCEPT ![c] = Ready(0, 0)]
          \/ \E s \in Slots : slots[s].active
                             /\ pc' = [pc EXCEPT ![c] = Ready(s, slots[s].obj)]
      BY <2>13, <3>1 DEF Find, IsFind, Named
    <3> QED
      BY <3>2, <3>3, <3>4
  <2>14. CASE Delete(c)
    <3>1. CASE slots[pc[c].slot].active
      BY <2>14, <3>1, DeleteSafe
    <3>2. CASE ~slots[pc[c].slot].active
      <4>1. pc' = [pc EXCEPT ![c] = Ready(pc[c].slot, pc[c].want)] /\ UNCHANGED Rest
            /\ pc[c].at = "delete"
        BY <2>14, <3>2 DEF Delete, Takes
      <4> QED
        BY <4>1, ReadyStep
    <3> QED
      BY <3>1, <3>2
  <2>15. CASE DeleteEnds(c)
    BY <2>15, DeleteEndsSafe
  <2>16. CASE MsgqUse(c) \/ EventUse(c)
    <3>1. PICK e : e = [pc[c] EXCEPT !.at = "checked"]
      OBVIOUS
    <3>2. e \in Calls /\ e.at = "checked" /\ e.slot = pc[c].slot /\ e.want = pc[c].want
      BY <2>1, <3>1, EditsTyped DEF Calls
    <3>3. pc' = [pc EXCEPT ![c] = e] /\ UNCHANGED Rest /\ pc[c].at = "ready"
      BY <2>16, <3>1 DEF MsgqUse, EventUse, Checks
    <3> QED
      BY <2>2, <3>2, <3>3
  <2>17. ASSUME \/ pc[c].at = "checked" /\ pc[c].slot \in Slots
                \/ pc[c].at = "get_ptr" /\ pc[c].slot \in Slots,
                pc' = [pc EXCEPT ![c] =
                         [pc[c] EXCEPT !.at = "using", !.obj = slots[pc[c].slot].obj]],
                UNCHANGED Rest
         PROVE  SafeInv'
    <3>1. PICK e : e = [pc[c] EXCEPT !.at = "using", !.obj = slots[pc[c].slot].obj]
      OBVIOUS
    <3>2. slots[pc[c].slot].obj \in Objects \cup {0}
      BY <2>17 DEF TypeOK, Slot
    <3>3. e \in Calls
      BY <2>1, <3>1, <3>2, EditsTyped
    <3>4. /\ e.at = "using" /\ e.slot = pc[c].slot /\ e.want = pc[c].want
          /\ e.obj = slots[pc[c].slot].obj
      BY <2>1, <3>1 DEF Calls
    <3>5. pc' = [pc EXCEPT ![c] = e]
      BY <2>17, <3>1
    <3> QED
      BY <2>2, <2>17, <3>3, <3>4, <3>5
  <2>18. CASE Use(c)
    BY <2>17, <2>18 DEF Use, HasHandle
  <2>19. CASE GetPtr(c)
    <3>1. CASE slots[pc[c].slot].active
      BY <2>17, <2>19, <3>1 DEF GetPtr, HasHandle, Takes
    <3>2. CASE ~slots[pc[c].slot].active
      BY <2>19, <3>2, ReadyStep DEF GetPtr, Takes
    <3> QED
      BY <3>1, <3>2
  <2>20. CASE TearDown(c)
    BY <2>20, TearDownSafe
  <2>21. CASE TornDown(c)
    BY <2>21, TornDownSafe
  <2>22. CASE DeinitEnds(c)
    BY <2>22, DeinitEndsSafe
  <2>23. CASE IpcInit(c)
    BY <2>23, IpcInitSafe
  <2>24. CASE Panic(c)
    BY <2>24, RestartSafe
  <2> QED
    BY <1>2, Steps, <2>10, <2>11, <2>12, <2>13, <2>14, <2>15, <2>16, <2>18, <2>19,
       <2>20, <2>21, <2>22, <2>23, <2>24
<1> QED
  BY <1>1, <1>2 DEF Next

\* A step that makes no slot active and gives none a new name keeps names unique.
LEMMA NamesKept ==
    ASSUME NamesUnique,
           \A s \in Slots : slots'[s].active => slots[s].active /\ slots'[s].name = slots[s].name
    PROVE  NamesUnique'
<1>1. \A T \in Tables : T \subseteq Slots
  BY DEF Tables, Slots
<1> QED
  BY <1>1 DEF NamesUnique

LEMMA NamesInductive == TypeOK /\ HasHandle /\ NamesUnique /\ [Next]_vars => NamesUnique'
<1> SUFFICES ASSUME TypeOK, HasHandle, NamesUnique, [Next]_vars
             PROVE  NamesUnique'
  OBVIOUS
<1>1. CASE UNCHANGED vars
  BY <1>1 DEF vars, NamesUnique
<1>2. ASSUME NEW c \in Callers, CallerStep(c)
      PROVE  NamesUnique'
  <2>1. ASSUME UNCHANGED slots
        PROVE  NamesUnique'
    BY <2>1 DEF NamesUnique
  <2>2. \A s \in Slots : Inactive(s).active = FALSE
    BY DEF Inactive, TypeOK, Slot
  <2>10. CASE \/ EnterStep(c) \/ CreateFails(c) \/ Find(c) \/ Delete(c) \/ MsgqUse(c)
              \/ EventUse(c) \/ Use(c) \/ GetPtr(c) \/ UseEnds(c) \/ TearDown(c) \/ DeinitEnds(c)
    <3>1. UNCHANGED slots
      BY <2>10 DEF EnterStep, Enter, CreateFails, Find, Delete, MsgqUse, EventUse, Checks,
                   Use, GetPtr, UseEnds, TearDown, DeinitEnds
    <3> QED
      BY <2>1, <3>1
  <2>11. CASE Create(c)
    <3>1. PICK s \in Slots :
            /\ s \in pc[c].table
            /\ slots' = [slots EXCEPT ![s] =
                 [obj |-> made + 1, name |-> Stored(pc[c].name), active |-> TRUE]]
      BY <2>11 DEF Create, IsFree
    <3>2. /\ slots'[s].name = Stored(pc[c].name)
          /\ \A t \in Slots : t # s => slots'[t] = slots[t]
      BY <3>1 DEF TypeOK
    <3>3. \A t \in pc[c].table : slots[t].active => slots[t].name # pc[c].name
      BY <2>11 DEF Create, Named
    <3>4. Stored(pc[c].name) \in {pc[c].name, Cut}
      BY DEF Stored
    <3>5. \A T \in Tables : T \subseteq Slots /\ (s \in T => T = pc[c].table)
      BY <3>1, IpcAssumption DEF TypeOK, Calls, Tables, Slots
    <3>6. ASSUME NEW T \in Tables, NEW t \in T, NEW u \in T,
                 slots'[t].active, slots'[u].active, slots'[t].name = slots'[u].name, t # u
          PROVE  slots'[t].name = Cut
      <4>1. CASE t # s /\ u # s
        BY <3>2, <3>5, <3>6, <4>1 DEF NamesUnique
      <4>2. CASE t = s
        BY <3>2, <3>3, <3>4, <3>5, <3>6, <4>2
      <4>3. CASE u = s
        BY <3>2, <3>3, <3>4, <3>5, <3>6, <4>3
      <4> QED
        BY <4>1, <4>2, <4>3
    <3> QED
      BY <3>6 DEF NamesUnique
  <2>12. CASE DeleteEnds(c)
    <3>1. pc[c].slot \in Slots /\ slots' = [slots EXCEPT ![pc[c].slot] = Inactive(pc[c].slot)]
      BY <2>12 DEF DeleteEnds, HasHandle
    <3>2. \A s \in Slots : slots'[s] = slots[s] \/ slots'[s].active = FALSE
      BY <2>2, <3>1 DEF TypeOK
    <3> QED
      BY <3>2, NamesKept
  <2>13. CASE TornDown(c)
    <3>1. \A s \in Slots : slots'[s].active = FALSE
      BY <2>2, <2>13 DEF TornDown
    <3> QED
      BY <3>1, NamesKept
  <2>14. CASE IpcInit(c) \/ Panic(c)
    <3>1. \A s \in Slots : slots'[s].active = FALSE
      BY <2>14 DEF IpcInit, Panic, Unused
    <3> QED
      BY <3>1, NamesKept
  <2> QED
    BY <1>2, Steps, <2>10, <2>11, <2>12, <2>13, <2>14
<1> QED
  BY <1>1, <1>2 DEF Next

-----------------------------------------------------------------------------
IInv == TypeOK /\ HasHandle /\ SafeInv /\ NamesUnique

LEMMA Invariance == Spec => []IInv
<1>1. Init => IInv
  <2>1. Init => \A s \in Slots : slots[s].active = FALSE
    BY DEF Init, Unused
  <2>2. \A T \in Tables : T \subseteq Slots
    BY DEF Tables, Slots
  <2>3. Init => NamesUnique
    BY <2>1, <2>2 DEF NamesUnique
  <2> QED
    BY <2>3, InitTyped, RestartSafe DEF IInv
<1>2. IInv /\ [Next]_vars => IInv'
  BY TypeInductive, SafeInductive, NamesInductive DEF IInv
<1> QED
  BY <1>1, <1>2, PTL DEF Spec

\* No interleaving of creates, deletes, failures, teardowns and restarts leaks an
\* object or leaves a slot with one that is gone, unless a create outlives the
\* teardown it overlaps.
THEOREM ObjectsStayOwned == Spec => []ObjectsOwned
<1>1. IInv => ObjectsOwned
  BY DEF IInv, SafeInv
<1> QED
  BY <1>1, Invariance, PTL

\* A handle leads to the object it was obtained for as long as that object exists,
\* and names that fit are unique.
THEOREM HandlesKeepReaching == Spec => []HandlesReach
<1>1. IInv => HandlesReach
  BY DEF IInv, SafeInv, HandleInv, HandlesReach
<1> QED
  BY <1>1, Invariance, PTL
=============================================================================

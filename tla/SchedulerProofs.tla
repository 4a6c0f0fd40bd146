-------------------------- MODULE SchedulerProofs --------------------------
(***************************************************************************)
(* Proofs about the command scheduler, for tables of any size, any names   *)
(* and any number of jobs.                                                 *)
(***************************************************************************)
EXTENDS Scheduler, SequenceTheorems, FiniteSetTheorems, WellFoundedInduction, TLAPS

\* A job and its timer have the same id, ids are not used twice, and a slot that is not
\* occupied is cleared.
JobsInv ==
    /\ \A s \in Slots :
         /\ Occupied(s) \/ jobs[s] = Cleared
         /\ jobs[s].id = jobs[s].timer /\ jobs[s].id <= nextId
         /\ jobs[s].id # 0 => jobs[s].id \notin cancelled
         /\ jobs[s].id # 0 => (jobs[s].repeat <=> jobs[s].id \in repeats)
         /\ late = {} /\ up # "up" => jobs[s].timer = 0
    /\ \A s, t \in Slots : jobs[s].id = jobs[t].id /\ jobs[s].id # 0 => s = t
    /\ \A i \in cancelled : i <= nextId

\* Names of jobs that are listed are unique.
NamesUnique ==
    \A s, t \in Slots :
        Occupied(s) /\ Occupied(t) /\ jobs[s].name = jobs[t].name /\ jobs[s].name # NoName
        => s = t

TimersInv ==
    /\ late = {} =>
         \A i \in Ids : timer[i] \in {"armed", "dormant"} =>
            tslot[i] \in Slots /\ jobs[tslot[i]].timer = i
    /\ \A s \in Slots : jobs[s].timer # 0 =>
         timer[jobs[s].timer] \in {"armed", "dormant"} /\ tslot[jobs[s].timer] = s
    /\ \A i \in Ids : timer[i] # "none" => tslot[i] \in Slots

\* A one-shot timer that can still expire has not, and ids that are not given yet have
\* no past.
FiredInv ==
    /\ \A i \in Ids : i \notin repeats =>
         fired[i] <= 1 /\ (timer[i] \in {"armed", "doomed"} => fired[i] = 0)
    /\ \A i \in Ids : i > nextId =>
         timer[i] = "none" /\ fired[i] = 0 /\ started[i] = 0 /\ i \notin repeats

\* The pointers to slot s that queue q holds.
Places(q, s)  == {k \in 1 .. Len(q) : q[k] = s}
Pointers(q, s) == Cardinality(Places(q, s))

\* As long as no slot is cleared under a pointer in use and no job is accepted inside
\* os_scheduler_deinit: a pointer leads to a job, each start and each queued pointer has
\* an expiration of its own (until the counter of expirations saturates), and the states
\* are right.
Sound ==
    /\ \A k \in 1 .. Len(queue) : jobs[queue[k]].timer # 0
    /\ worker.slot # 0 => jobs[worker.slot].timer # 0 /\ started[jobs[worker.slot].timer] >= 1
    /\ \A i \in Ids : started[i] <= fired[i]
    /\ \A s \in Slots : jobs[s].timer # 0 =>
         LET i == jobs[s].timer IN
         fired[i] = Cap \/ started[i] + Pointers(queue, s) <= fired[i]
    /\ \A s \in Slots : Occupied(s) =>
         LET j == jobs[s] IN
         /\ j.timer # 0
         /\ j.running = ~j.completed
         /\ j.completed = (~j.repeat /\ started[j.id] = 1 /\ worker.slot # s)

IInv ==
    /\ TypeOK /\ JobsInv /\ NamesUnique /\ TimersInv /\ FiredInv
    /\ ~Broken => Sound
    /\ OnlyRepeatsOverflow

-----------------------------------------------------------------------------
(* Lemmas about numbers and queues *)

\* A set of slots that is not empty has a first one, so that a search from the start of
\* the table finds it.
LEMMA First ==
    ASSUME NEW S \in SUBSET Nat, S # {}
    PROVE  \E m \in S : \A n \in S : m <= n
<1>1. PICK m \in S : \A n \in S : ~(<<n, m>> \in OpToRel(<, Nat))
  BY NatLessThanWellFounded, WFMin, Zenon
<1>2. \A n \in S : <<n, m>> \in OpToRel(<, Nat) <=> n < m
  BY DEF OpToRel
<1>3. \A n \in S : ~(n < m)
  BY <1>1, <1>2, Zenon
<1> QED BY <1>3

\* A queue holds finitely many pointers.
LEMMA PointersType ==
    ASSUME NEW q \in Seq(Slots), NEW s \in Slots
    PROVE  IsFiniteSet(Places(q, s)) /\ Pointers(q, s) \in Nat
<1>1. IsFiniteSet(1 .. Len(q))
  BY FS_Interval
<1>2. Places(q, s) \in SUBSET (1 .. Len(q))
  BY DEF Places
<1>3. IsFiniteSet(Places(q, s))
  BY <1>1, <1>2, FS_Subset
<1> QED BY <1>3, FS_CardinalityType DEF Pointers

\* No pointer, and none counted, are the same.
LEMMA PointersNone ==
    ASSUME NEW q \in Seq(Slots), NEW s \in Slots
    PROVE  Pointers(q, s) = 0 <=> \A k \in 1 .. Len(q) : q[k] # s
<1>1. Pointers(q, s) = 0 <=> Places(q, s) = {}
  BY PointersType, FS_EmptySet DEF Pointers
<1> QED BY <1>1 DEF Places

\* A pointer that is posted counts for its own slot only.
LEMMA PointersAppend ==
    ASSUME NEW q \in Seq(Slots), NEW s \in Slots, NEW t \in Slots
    PROVE  Pointers(Append(q, t), s) = Pointers(q, s) + (IF s = t THEN 1 ELSE 0)
<1> DEFINE r == Append(q, t)
<1>1. /\ Len(q) \in Nat /\ Len(r) = Len(q) + 1 /\ r[Len(q) + 1] = t
      /\ \A k \in 1 .. Len(q) : r[k] = q[k]
  OBVIOUS
<1>2. IsFiniteSet(Places(q, s)) /\ Cardinality(Places(q, s)) \in Nat
  BY PointersType DEF Pointers
<1>3. CASE s = t
  <2>1. Places(r, s) = Places(q, s) \cup {Len(q) + 1}
    BY <1>1, <1>3 DEF Places
  <2>2. Len(q) + 1 \notin Places(q, s)
    BY <1>1 DEF Places
  <2>3. Cardinality(Places(q, s) \cup {Len(q) + 1}) = Cardinality(Places(q, s)) + 1
    BY <1>2, <2>2, FS_AddElement
  <2> QED BY <1>3, <2>1, <2>3 DEF Pointers
<1>4. CASE s # t
  <2>1. Places(r, s) = Places(q, s)
    BY <1>1, <1>4 DEF Places
  <2> QED BY <1>2, <1>4, <2>1 DEF Pointers
<1> QED BY <1>3, <1>4

\* The pointer that the worker takes no longer counts.
LEMMA PointersTail ==
    ASSUME NEW q \in Seq(Slots), q # <<>>, NEW s \in Slots
    PROVE  Pointers(q, s) = Pointers(Tail(q), s) + (IF Head(q) = s THEN 1 ELSE 0)
<1> DEFINE r == Tail(q)
<1>1. /\ Len(q) \in Nat \ {0} /\ r \in Seq(Slots) /\ Len(r) = Len(q) - 1 /\ Head(q) = q[1]
      /\ \A k \in 1 .. Len(r) : r[k] = q[k + 1]
  OBVIOUS
<1> HIDE DEF r
<1> DEFINE A == Places(r, s)
           B == Places(q, s) \ {1}
           f == [k \in A |-> k + 1]
<1>2. IsFiniteSet(A) /\ Cardinality(A) \in Nat
  BY <1>1, PointersType DEF Pointers
<1>3. IsFiniteSet(Places(q, s)) /\ Cardinality(Places(q, s)) \in Nat
  BY PointersType DEF Pointers
<1>4. f \in Bijection(A, B)
  <2>1. f \in [A -> B]
    BY <1>1 DEF Places
  <2>2. \A a, b \in A : f[a] = f[b] => a = b
    BY <1>1 DEF Places
  <2>3. \A b \in B : \E a \in A : f[a] = b
    <3> SUFFICES ASSUME NEW b \in B PROVE \E a \in A : f[a] = b
      OBVIOUS
    <3>1. b - 1 \in A /\ f[b - 1] = b
      BY <1>1 DEF Places
    <3> QED BY <3>1
  <2> QED BY <2>1, <2>2, <2>3 DEF Bijection, Injection, Surjection, IsInjective
<1>5. Cardinality(B) = Cardinality(A)
  BY <1>2, <1>4, FS_Bijection DEF ExistsBijection
<1>6. Cardinality(B) = IF 1 \in Places(q, s) THEN Cardinality(Places(q, s)) - 1
                       ELSE Cardinality(Places(q, s))
  BY <1>3, FS_RemoveElement
<1>7. 1 \in Places(q, s) <=> Head(q) = s
  BY <1>1 DEF Places
<1> QED BY <1>2, <1>3, <1>5, <1>6, <1>7 DEF Pointers, r

\* A pointer that is there twice counts twice.
LEMMA PointersTwice ==
    ASSUME NEW q \in Seq(Slots), NEW k \in 1 .. Len(q), NEW l \in 1 .. Len(q), k # l, q[k] = q[l]
    PROVE  Pointers(q, q[k]) >= 2
<1>1. q[k] \in Slots
  OBVIOUS
<1> DEFINE P == Places(q, q[k])
<1>2. IsFiniteSet(P) /\ Cardinality(P) \in Nat
  BY <1>1, PointersType DEF Pointers
<1>3. k \in P /\ l \in P
  BY DEF Places
<1> HIDE DEF P
<1>4. IsFiniteSet(P \ {k}) /\ Cardinality(P \ {k}) = Cardinality(P) - 1
  BY <1>2, <1>3, FS_RemoveElement
<1>5. Cardinality(P \ {k}) # 0 /\ Cardinality(P \ {k}) \in Nat
  <2>1. Cardinality(P \ {k}) \in Nat
    BY <1>4, FS_CardinalityType
  <2>2. P \ {k} # {}
    BY <1>3
  <2> QED BY <1>4, <2>1, <2>2, FS_EmptySet
<1> QED BY <1>2, <1>4, <1>5 DEF Pointers, P

\* The counts of a step are what it makes of them, or zero.
LEMMA CountsAre ==
    ASSUME NEW f \in [Ids -> 0 .. Cap], NEW s \in [Ids -> 0 .. Cap], Counts(f, s)
    PROVE  /\ fired' \in [Ids -> 0 .. Cap] /\ started' \in [Ids -> 0 .. Cap]
           /\ \A i \in Ids : fired'[i] \in {f[i], 0} /\ started'[i] \in {s[i], 0}
           /\ ~Broken' => fired' = f /\ started' = s
<1>1. CASE Broken'
  BY <1>1, SchedulerAssumption DEF Counts, Zeros
<1>2. CASE ~Broken'
  BY <1>2 DEF Counts
<1> QED BY <1>1, <1>2

-----------------------------------------------------------------------------
(* Start, schedule and cancel *)

\* os_scheduler_init clears a table that has no timers any more, unless a job is late.
LEMMA InitStep ==
    ASSUME IInv, SchedulerInit
    PROVE  IInv'
<1> USE DEF IInv
<1>1. \A s \in Slots : jobs'[s] = Cleared /\ (late = {} => jobs[s].timer = 0)
  BY DEF SchedulerInit, JobsInv
<1>2. TypeOK'
  BY SchedulerAssumption DEF SchedulerInit, TypeOK, Job, Cleared, Idle, Slots, Id0
<1>3. JobsInv' /\ NamesUnique'
  BY <1>1 DEF SchedulerInit, TypeOK, JobsInv, NamesUnique, Occupied, Cleared
<1>4. TimersInv' /\ FiredInv' /\ OnlyRepeatsOverflow'
  BY <1>1 DEF SchedulerInit, TimersInv, FiredInv, OnlyRepeatsOverflow, Broken, Cleared, Ids
<1>5. ~Broken' => Sound'
  BY <1>1 DEF SchedulerInit, Sound, Occupied, Cleared, Idle, Broken
<1> QED BY <1>2, <1>3, <1>4, <1>5

\* find_job_locked returns NULL only if no job has the name.
LEMMA SearchFails ==
    ASSUME NEW n, \A s \in Slots : ~IsJob(s, n)
    PROVE  \A t \in Slots : ~(Occupied(t) /\ jobs[t].name = n)
<1> SUFFICES ASSUME NEW t \in Slots, Occupied(t), jobs[t].name = n PROVE FALSE
  OBVIOUS
<1> DEFINE S == {u \in Slots : Occupied(u) /\ jobs[u].name = n}
<1>1. S \in SUBSET Nat /\ S # {}
  BY DEF Slots
<1>2. PICK m \in S : \A u \in S : m <= u
  BY <1>1, First
<1>3. IsJob(m, n)
  BY <1>2, SchedulerAssumption DEF IsJob, Slots
<1> QED BY <1>3

\* os_scheduler_schedule takes a free slot and a new id.
LEMMA ScheduleStep ==
    ASSUME IInv, NEW n \in Names, NEW rep \in BOOLEAN, Schedule(n, rep)
    PROVE  IInv'
<1> USE DEF IInv
<1> DEFINE id == nextId + 1
           job == [id |-> id, name |-> n, repeat |-> rep,
                   running |-> TRUE, completed |-> FALSE, timer |-> id]
<1>1. PICK s \in Slots :
        /\ ~Occupied(s)
        /\ jobs' = [jobs EXCEPT ![s] = job]
        /\ tslot' = [tslot EXCEPT ![id] = s]
  BY DEF Schedule, IsFreeSlot
<1>2. /\ nextId < MaxIds
      /\ timer' = [timer EXCEPT ![id] = "armed"] /\ nextId' = id
      /\ repeats' = IF rep THEN repeats \cup {id} ELSE repeats
      /\ late' = IF up = "up" THEN late ELSE late \cup {id}
      /\ Counts(fired, started)
      /\ UNCHANGED <<up, workerTask, queue, worker, cancelled, dropped, stale>>
  BY DEF Schedule
<1>3. /\ id \in Ids /\ id \in Id0 /\ id > nextId /\ id # 0 /\ nextId \in Nat
      /\ timer[id] = "none" /\ fired[id] = 0 /\ started[id] = 0 /\ id \notin repeats
  BY <1>2, SchedulerAssumption DEF TypeOK, Ids, Id0, FiredInv
<1>4. \A t \in Slots : ~(Occupied(t) /\ jobs[t].name = n)
  BY SearchFails DEF Schedule
<1>5. jobs[s] = Cleared /\ jobs[s].timer = 0 /\ jobs[s].id = 0
  <2>1. jobs[s] = Cleared
    BY <1>1 DEF JobsInv
  <2> QED BY <2>1 DEF Cleared
<1>6. jobs'[s] = job /\ \A t \in Slots : t # s => jobs'[t] = jobs[t]
  BY <1>1 DEF TypeOK
<1>7. /\ \A i \in Ids : i # id => timer'[i] = timer[i] /\ tslot'[i] = tslot[i]
      /\ timer'[id] = "armed" /\ tslot'[id] = s
  BY <1>1, <1>2, <1>3 DEF TypeOK
<1>8. job \in Job
  BY <1>3 DEF Job
<1>9. job.id = id /\ job.timer = id /\ job.name = n /\ job.repeat = rep /\ job.running = TRUE
      /\ job.completed = FALSE
  OBVIOUS
<1>10. \A t \in Slots : t # s => (Occupied(t)' <=> Occupied(t))
  BY <1>6 DEF Occupied
<1>11. Occupied(s)'
  BY <1>3, <1>6, <1>9 DEF Occupied
<1>12. \A t \in Slots : jobs[t].id \in Id0 /\ jobs[t].timer \in Id0
  BY DEF TypeOK, Job
<1> HIDE DEF job
<1>12a. /\ fired' \in [Ids -> 0 .. Cap] /\ started' \in [Ids -> 0 .. Cap]
        /\ \A i \in Ids : fired'[i] \in {fired[i], 0} /\ started'[i] \in {started[i], 0}
        /\ ~Broken' => fired' = fired /\ started' = started
  BY <1>2, CountsAre DEF TypeOK
<1>12b. Broken => Broken'
  BY <1>2 DEF Broken
<1>13. TypeOK'
  <2>1. jobs' \in [Slots -> Job]
    BY <1>1, <1>8 DEF TypeOK
  <2>2. timer' \in [Ids -> TimerStates] /\ tslot' \in [Ids -> 0 .. MaxJobs]
    <3>1. s \in 0 .. MaxJobs
      BY SchedulerAssumption DEF Slots
    <3>2. "armed" \in TimerStates
      BY DEF TimerStates
    <3> QED BY <1>1, <1>2, <3>1, <3>2 DEF TypeOK
  <2>3. nextId' \in 0 .. MaxIds /\ repeats' \in SUBSET Ids
    BY <1>2, <1>3, SchedulerAssumption DEF TypeOK, Ids
  <2>4. late' \in SUBSET Ids
    BY <1>2, <1>3 DEF TypeOK
  <2> QED BY <1>2, <1>12a, <2>1, <2>2, <2>3, <2>4 DEF TypeOK
<1>14. JobsInv'
  <2>1. \A t \in Slots : t # s => jobs[t].id < id
    BY <1>3, <1>12, SchedulerAssumption DEF JobsInv, Id0
  <2>2. \A i \in cancelled : i < id
    BY <1>3, SchedulerAssumption DEF JobsInv, TypeOK, Ids
  <2>3. \A i \in Ids : i # id => (i \in repeats' <=> i \in repeats)
    BY <1>2
  <2>4. id \in repeats' <=> rep
    BY <1>2, <1>3
  <2>5. \A t \in Slots : jobs[t].id # 0 => jobs[t].id \in Ids
    BY <1>12, SchedulerAssumption DEF Id0, Ids
  <2>6. ASSUME NEW t \in Slots
        PROVE  /\ (Occupied(t) \/ jobs[t] = Cleared)'
               /\ jobs'[t].id = jobs'[t].timer /\ jobs'[t].id <= nextId'
               /\ jobs'[t].id # 0 => jobs'[t].id \notin cancelled'
               /\ jobs'[t].id # 0 => (jobs'[t].repeat <=> jobs'[t].id \in repeats')
               /\ late' = {} /\ up' # "up" => jobs'[t].timer = 0
    <3>1. CASE t = s
      BY <1>2, <1>3, <1>6, <1>9, <1>11, <2>2, <2>4, <3>1
    <3>2. CASE t # s
      <4>1. (Occupied(t) \/ jobs[t] = Cleared)'
        BY <1>6, <1>10, <3>2 DEF JobsInv
      <4>2. jobs'[t] = jobs[t] /\ jobs[t].id <= nextId'
        BY <1>2, <1>3, <1>6, <1>12, <3>2 DEF JobsInv, Id0
      <4>3. jobs[t].id # 0 => (jobs[t].repeat <=> jobs[t].id \in repeats')
        BY <1>3, <1>12, <2>1, <2>3, <2>5, <3>2 DEF JobsInv, Ids
      <4> QED BY <1>2, <4>1, <4>2, <4>3 DEF JobsInv
    <3> QED BY <3>1, <3>2
  <2>7. \A t, u \in Slots : jobs'[t].id = jobs'[u].id /\ jobs'[t].id # 0 => t = u
    <3>1. \A t \in Slots : t # s => jobs'[t].id # id
      BY <1>3, <1>6, <1>12, <2>1 DEF Id0
    <3> QED BY <1>6, <1>9, <3>1 DEF JobsInv
  <2>8. \A i \in cancelled' : i <= nextId'
    BY <1>2, <1>3, <2>2 DEF TypeOK, Ids
  <2> QED BY <2>6, <2>7, <2>8 DEF JobsInv
<1>15. NamesUnique'
  BY <1>4, <1>6, <1>9, <1>10 DEF NamesUnique
<1>16. TimersInv'
  <2>1. \A t \in Slots : t # s /\ jobs[t].timer # 0 => jobs[t].timer # id
    BY <1>3, <1>12, SchedulerAssumption DEF JobsInv, Id0
  <2>2. late = {} => \A i \in Ids : timer[i] \in {"armed", "dormant"} => tslot[i] # s
    BY <1>5 DEF TimersInv, Ids
  <2>3. \A t \in Slots : jobs[t].timer # 0 => jobs[t].timer \in Ids
    BY <1>12, SchedulerAssumption DEF Id0, Ids
  <2>4. late' = {} => late = {}
    BY <1>2
  <2> QED BY <1>3, <1>6, <1>7, <1>9, <2>1, <2>2, <2>3, <2>4 DEF TimersInv
<1>17. FiredInv'
  <2>1. \A i \in Ids : i \notin repeats' => i \notin repeats
    BY <1>2
  <2>2. \A i \in Ids : i # id /\ i \notin repeats => i \notin repeats'
    BY <1>2
  <2> QED BY <1>2, <1>3, <1>7, <1>12a, <2>1, <2>2 DEF FiredInv, TypeOK, Ids
<1>18. ~Broken' => Sound'
  <2> SUFFICES ASSUME ~Broken' PROVE Sound'
    OBVIOUS
  <2>0. ~Broken /\ fired' = fired /\ started' = started
    BY <1>12a, <1>12b
  <2>1. \A k \in 1 .. Len(queue) : queue[k] # s
    BY <1>5, <2>0 DEF Sound
  <2>2. Pointers(queue, s) = 0
    BY <2>1, PointersNone DEF TypeOK
  <2>3. worker.slot # s
    BY <1>5, <2>0 DEF Sound, Slots
  <2>4. \A k \in 1 .. Len(queue) : queue[k] \in Slots
    BY DEF TypeOK
  <2>5. worker.slot # 0 => worker.slot \in Slots
    BY SchedulerAssumption DEF TypeOK, Slots
  <2>6. \A t \in Slots : t # s => jobs'[t] = jobs[t]
    BY <1>6
  <2>7. \A t \in Slots : Occupied(t)' =>
           LET j == jobs'[t] IN
           /\ j.timer # 0
           /\ j.running = ~j.completed
           /\ j.completed = (~j.repeat /\ started[j.id] = 1 /\ worker.slot # t)
    <3> SUFFICES ASSUME NEW t \in Slots, Occupied(t)'
                 PROVE  /\ jobs'[t].timer # 0
                        /\ jobs'[t].running = ~jobs'[t].completed
                        /\ jobs'[t].completed =
                             (~jobs'[t].repeat /\ started[jobs'[t].id] = 1 /\ worker.slot # t)
      OBVIOUS
    <3>1. CASE t = s
      <4>1. started[jobs'[t].id] # 1
        BY <1>3, <1>6, <1>9, <3>1
      <4> QED BY <1>3, <1>6, <1>9, <3>1, <4>1
    <3>2. CASE t # s
      BY <1>6, <1>10, <2>0, <3>2 DEF Sound
    <3> QED BY <3>1, <3>2
  <2>8. \A t \in Slots : jobs'[t].timer # 0 =>
           LET i == jobs'[t].timer IN
           fired[i] = Cap \/ started[i] + Pointers(queue, t) <= fired[i]
    BY <1>3, <1>6, <1>9, <2>0, <2>2 DEF Sound
  <2> QED BY <1>2, <1>3, <1>6, <1>9, <2>0, <2>1, <2>3, <2>4, <2>5, <2>7, <2>8 DEF Sound
<1>19. OnlyRepeatsOverflow'
  BY <1>2, <1>12b DEF OnlyRepeatsOverflow
<1> QED BY <1>13, <1>14, <1>15, <1>16, <1>17, <1>18, <1>19

\* os_scheduler_cancel stops the timer of the slot it clears.
LEMMA CancelStep ==
    ASSUME IInv, NEW n \in Names, Cancel(n)
    PROVE  IInv'
<1> USE DEF IInv
<1>1. PICK s \in Slots :
        /\ Occupied(s)
        /\ timer' = IF jobs[s].timer = 0 THEN timer
                    ELSE [timer EXCEPT ![jobs[s].timer] = Stopped(jobs[s].timer)]
        /\ jobs' = [jobs EXCEPT ![s] = Cleared]
        /\ cancelled' = cancelled \cup ({jobs[s].id} \ {0})
        /\ stale' = (stale \/ Referenced(s))
  BY DEF Cancel, IsJob
<1>2. /\ UNCHANGED <<up, workerTask, queue, worker, nextId, dropped, repeats, late>>
      /\ tslot' = TslotKept /\ Counts(fired, started)
  BY DEF Cancel
<1>2a. /\ fired' \in [Ids -> 0 .. Cap] /\ started' \in [Ids -> 0 .. Cap]
       /\ \A i \in Ids : fired'[i] \in {fired[i], 0} /\ started'[i] \in {started[i], 0}
       /\ ~Broken' => fired' = fired /\ started' = started
  BY <1>2, CountsAre DEF TypeOK
<1>2b. /\ tslot' \in [Ids -> 0 .. MaxJobs]
       /\ \A i \in Ids : timer'[i] # "none" => tslot'[i] = tslot[i]
  BY <1>2, SchedulerAssumption DEF TypeOK, TslotKept
<1>3. jobs'[s] = Cleared /\ \A t \in Slots : t # s => jobs'[t] = jobs[t]
  BY <1>1 DEF TypeOK
<1>4. /\ Cleared.timer = 0 /\ Cleared.id = 0 /\ ~Cleared.running /\ ~Cleared.completed
      /\ Cleared \in Job
  BY SchedulerAssumption DEF Cleared, Job, Id0
<1>5. \A t \in Slots : jobs[t].id \in Id0 /\ jobs[t].timer \in Id0 /\ jobs[t].id = jobs[t].timer
  BY DEF TypeOK, Job, JobsInv
<1>6. \A t \in Slots : t # s => (Occupied(t)' <=> Occupied(t))
  BY <1>3 DEF Occupied
<1>7. ~Occupied(s)'
  BY <1>3, <1>4 DEF Occupied
<1>8. jobs[s].timer # 0 => jobs[s].timer \in Ids
  BY <1>5, SchedulerAssumption DEF Id0, Ids
<1>9. \A i \in Ids : i # jobs[s].timer => timer'[i] = timer[i]
  BY <1>1, <1>8 DEF TypeOK
<1>10. jobs[s].timer # 0 => timer'[jobs[s].timer] \in {"doomed", "none"}
                            /\ (timer'[jobs[s].timer] = "doomed" => timer[jobs[s].timer] = "armed")
  BY <1>1, <1>8 DEF TypeOK, Stopped
<1>11. TypeOK'
  <2>1. jobs' \in [Slots -> Job]
    BY <1>1, <1>4 DEF TypeOK
  <2>2. timer' \in [Ids -> TimerStates]
    BY <1>1 DEF TypeOK, Stopped, TimerStates
  <2>3. cancelled' \in SUBSET Ids /\ stale' \in BOOLEAN
    BY <1>1, <1>5, <1>8 DEF TypeOK, Referenced
  <2> QED BY <1>2, <1>2a, <1>2b, <2>1, <2>2, <2>3 DEF TypeOK
<1>12. JobsInv'
  <2>1. ASSUME NEW t \in Slots
        PROVE  /\ (Occupied(t) \/ jobs[t] = Cleared)'
               /\ jobs'[t].id = jobs'[t].timer /\ jobs'[t].id <= nextId'
               /\ jobs'[t].id # 0 => jobs'[t].id \notin cancelled'
               /\ jobs'[t].id # 0 => (jobs'[t].repeat <=> jobs'[t].id \in repeats')
               /\ late' = {} /\ up' # "up" => jobs'[t].timer = 0
    <3>1. CASE t = s
      BY <1>2, <1>3, <1>4, <3>1 DEF TypeOK
    <3>2. CASE t # s
      <4>1. jobs[t].id # 0 => jobs[t].id # jobs[s].id
        BY <3>2 DEF JobsInv
      <4> QED BY <1>1, <1>2, <1>3, <1>6, <3>2, <4>1 DEF JobsInv
    <3> QED BY <3>1, <3>2
  <2>2. \A t, u \in Slots : jobs'[t].id = jobs'[u].id /\ jobs'[t].id # 0 => t = u
    BY <1>3, <1>4 DEF JobsInv
  <2>3. \A i \in cancelled' : i <= nextId'
    BY <1>1, <1>2 DEF JobsInv
  <2> QED BY <2>1, <2>2, <2>3 DEF JobsInv
<1>13. NamesUnique'
  BY <1>3, <1>6, <1>7 DEF NamesUnique
<1>14. TimersInv'
  <2>1. ASSUME late = {}, NEW i \in Ids, timer'[i] \in {"armed", "dormant"}
        PROVE  tslot'[i] \in Slots /\ jobs'[tslot'[i]].timer = i
    <3>1. i # jobs[s].timer
      BY <1>10, <2>1 DEF Ids
    <3> QED BY <1>2b, <1>3, <1>9, <2>1, <3>1 DEF TimersInv
  <2>2. ASSUME NEW t \in Slots, jobs'[t].timer # 0
        PROVE  timer'[jobs'[t].timer] \in {"armed", "dormant"} /\ tslot'[jobs'[t].timer] = t
    <3>1. t # s /\ jobs'[t] = jobs[t]
      BY <1>3, <1>4, <2>2
    <3>2. jobs[t].timer # jobs[s].timer /\ jobs[t].timer \in Ids
      BY <1>5, <2>2, <3>1, SchedulerAssumption DEF JobsInv, Id0, Ids
    <3> QED BY <1>2b, <1>9, <2>2, <3>1, <3>2 DEF TimersInv
  <2>3. ASSUME NEW i \in Ids, timer'[i] # "none" PROVE tslot'[i] \in Slots
    <3>1. timer[i] # "none"
      BY <1>9, <1>10, <2>3 DEF Ids
    <3> QED BY <1>2b, <2>3, <3>1 DEF TimersInv
  <2> QED BY <1>2, <2>1, <2>2, <2>3 DEF TimersInv
<1>15. FiredInv'
  BY <1>2, <1>2a, <1>5, <1>8, <1>9, <1>10 DEF FiredInv, JobsInv, TypeOK, Ids, Id0
<1>16. ~Broken' => Sound'
  <2> SUFFICES ASSUME ~Broken, ~Referenced(s), fired' = fired, started' = started PROVE Sound'
    BY <1>1, <1>2, <1>2a DEF Broken
  <2>1. \A k \in 1 .. Len(queue) : queue[k] # s /\ queue[k] \in Slots
    BY DEF Referenced, TypeOK
  <2>2. worker.slot # s /\ (worker.slot # 0 => worker.slot \in Slots)
    BY SchedulerAssumption DEF Referenced, TypeOK, Slots
  <2> QED BY <1>2, <1>3, <1>4, <1>6, <1>7, <2>1, <2>2 DEF Sound
<1>17. OnlyRepeatsOverflow'
  BY <1>1, <1>2 DEF OnlyRepeatsOverflow, Broken
<1> QED BY <1>11, <1>12, <1>13, <1>14, <1>15, <1>16, <1>17

\* os_scheduler_deinit stops all timers it knows and clears all slots, called by a session
\* or by the worker ...
LEMMA ClearsStep ==
    ASSUME IInv, ClearsJobs, up' \in {"up", "stopping"}, workerTask' \in {"worker", "null", "gone"},
           worker' \in {worker, Idle}
    PROVE  IInv'
<1> USE DEF IInv
<1>1. /\ timer' = [i \in Ids |-> IF \E s \in Slots : jobs[s].timer = i THEN Stopped(i) ELSE timer[i]]
      /\ cancelled' = cancelled \cup ({jobs[s].id : s \in Slots} \ {0})
      /\ stale' = (stale \/ \E s \in Slots : Referenced(s))
      /\ UNCHANGED <<queue, nextId, dropped, repeats, late>>
      /\ tslot' = TslotKept /\ Counts(fired, started)
      /\ \A s \in Slots : jobs'[s] = Cleared
  BY DEF ClearsJobs
<1>2. /\ Cleared.timer = 0 /\ Cleared.id = 0 /\ ~Cleared.running /\ ~Cleared.completed
      /\ Cleared \in Job
  BY SchedulerAssumption DEF Cleared, Job, Id0
<1>2a. /\ fired' \in [Ids -> 0 .. Cap] /\ started' \in [Ids -> 0 .. Cap]
       /\ \A i \in Ids : fired'[i] \in {fired[i], 0} /\ started'[i] \in {started[i], 0}
       /\ ~Broken' => fired' = fired /\ started' = started
  BY <1>1, CountsAre DEF TypeOK
<1>2b. /\ tslot' \in [Ids -> 0 .. MaxJobs]
       /\ \A i \in Ids : timer'[i] # "none" => tslot'[i] = tslot[i]
  BY <1>1, SchedulerAssumption DEF TypeOK, TslotKept
<1>3. \A t \in Slots : jobs[t].id \in Id0 /\ (jobs[t].id # 0 => jobs[t].id \in Ids)
  BY SchedulerAssumption DEF TypeOK, Job, Id0, Ids
<1>4. \A i \in Ids : /\ timer'[i] \in TimerStates
                     /\ late = {} => timer'[i] \in {"doomed", "none"}
                     /\ timer'[i] \in {"armed", "doomed"} => timer[i] \in {"armed", "doomed"}
                     /\ timer'[i] # "none" => timer[i] # "none"
  <2> SUFFICES ASSUME NEW i \in Ids
               PROVE  /\ timer'[i] \in TimerStates
                      /\ late = {} => timer'[i] \in {"doomed", "none"}
                      /\ timer'[i] \in {"armed", "doomed"} => timer[i] \in {"armed", "doomed"}
                      /\ timer'[i] # "none" => timer[i] # "none"
    OBVIOUS
  <2>1. timer'[i] = IF \E s \in Slots : jobs[s].timer = i THEN Stopped(i) ELSE timer[i]
    BY <1>1
  <2>2. late = {} /\ timer[i] \in {"armed", "dormant"} => \E s \in Slots : jobs[s].timer = i
    BY DEF TimersInv
  <2> QED BY <2>1, <2>2 DEF Stopped, TypeOK, TimerStates
<1>5. TypeOK'
  <2>1. jobs' \in [Slots -> Job]
    BY <1>2 DEF ClearsJobs
  <2>2. timer' \in [Ids -> TimerStates]
    BY <1>1, <1>4
  <2>3. cancelled' \in SUBSET Ids /\ stale' \in BOOLEAN
    BY <1>1, <1>3 DEF TypeOK, Referenced
  <2>4. worker' \in [slot : 0 .. MaxJobs, id : Id0]
    BY SchedulerAssumption DEF TypeOK, Idle, Id0
  <2> QED BY <1>1, <1>2a, <1>2b, <2>1, <2>2, <2>3, <2>4 DEF TypeOK
<1>6. JobsInv' /\ NamesUnique'
  BY <1>1, <1>2, SchedulerAssumption DEF TypeOK, JobsInv, NamesUnique, Occupied
<1>7. TimersInv' /\ OnlyRepeatsOverflow'
  BY <1>1, <1>2, <1>2b, <1>4 DEF TimersInv, OnlyRepeatsOverflow, Broken
<1>8. FiredInv'
  <2>1. \A i \in Ids : timer[i] = "none" => timer'[i] = "none"
    BY <1>4
  <2> QED BY <1>1, <1>2a, <1>4, <2>1 DEF FiredInv
<1>9. ~Broken' => Sound'
  <2> SUFFICES ASSUME ~Broken, \A s \in Slots : ~Referenced(s), fired' = fired, started' = started
               PROVE  Sound'
    BY <1>1, <1>2a DEF Broken
  <2>1. 1 .. Len(queue) = {}
    BY DEF Referenced, TypeOK
  <2>2. worker.slot = 0 /\ Idle.slot = 0
    BY SchedulerAssumption DEF Referenced, TypeOK, Slots, Idle
  <2> QED BY <1>1, <1>2, <2>1, <2>2 DEF Sound, Occupied
<1> QED BY <1>5, <1>6, <1>7, <1>8, <1>9

\* ... and then drops the worker and the queue, the lock, and initialised.
LEMMA TeardownStep ==
    ASSUME IInv, DeinitTeardown \/ DeinitEnds
    PROVE  IInv'
<1> USE DEF IInv
<1>1. /\ up \in {"stopping", "closing"} /\ up' \in {"closing", "down"}
      /\ workerTask' \in {"null", workerTask}
      /\ \/ queue' = <<>> /\ worker' = Idle
         \/ UNCHANGED <<queue, worker>>
      /\ UNCHANGED <<jobs, timer, tslot, nextId, fired, started, cancelled, dropped, repeats,
                     stale, late>>
  BY DEF DeinitTeardown, DeinitEnds
<1>2. TypeOK'
  <2>1. Idle \in [slot : 0 .. MaxJobs, id : Id0]
    BY SchedulerAssumption DEF Idle, Id0
  <2>2. <<>> \in Seq(Slots) /\ Len(<<>>) <= MaxJobs
    BY SchedulerAssumption
  <2> QED BY <1>1, <2>1, <2>2 DEF TypeOK
<1>3. JobsInv' /\ NamesUnique' /\ TimersInv' /\ FiredInv' /\ OnlyRepeatsOverflow'
  BY <1>1 DEF JobsInv, NamesUnique, TimersInv, FiredInv, OnlyRepeatsOverflow, Occupied, Broken
<1>4. ~Broken' => Sound'
  <2> SUFFICES ASSUME ~Broken PROVE Sound'
    BY <1>1 DEF Broken
  <2>1. \A s \in Slots : jobs[s].timer = 0
    BY <1>1 DEF JobsInv, Broken
  <2> QED BY <1>1, <2>1 DEF Sound, Occupied, Idle
<1> QED BY <1>2, <1>3, <1>4

-----------------------------------------------------------------------------
(* The timer task *)

\* A full queue without a pointer to slot s has a pointer twice.
LEMMA Crowded ==
    ASSUME NEW q \in Seq(Slots), Len(q) = MaxJobs, NEW s \in Slots,
           \A k \in 1 .. Len(q) : q[k] # s
    PROVE  \E k, l \in 1 .. MaxJobs : k # l /\ q[k] = q[l]
<1> DEFINE D == 1 .. MaxJobs
           R == Slots \ {s}
           f == [k \in D |-> q[k]]
<1>1. f \in [D -> R]
  OBVIOUS
<1>2. IsFiniteSet(D) /\ Cardinality(D) = MaxJobs /\ MaxJobs \in Nat
  BY SchedulerAssumption, FS_Interval
<1>3. IsFiniteSet(R) /\ Cardinality(R) = MaxJobs - 1
  BY <1>2, FS_RemoveElement DEF Slots
<1>4. Cardinality(R) < Cardinality(D)
  BY <1>2, <1>3
<1> HIDE DEF f, D, R
<1>5. \E k, l \in D : k # l /\ f[k] = f[l]
  BY <1>1, <1>2, <1>3, <1>4, FS_PigeonHole, Zenon
<1> QED BY <1>5 DEF D, f

\* When no job in the table repeats, and the promise holds, a timer that expires finds
\* room: the queue has at most one pointer for each of the other slots.
LEMMA OneShotsFit ==
    ASSUME IInv, ~Broken, \A t \in Slots : ~jobs[t].repeat, NEW i \in Ids, timer[i] = "armed"
    PROVE  Len(queue) < MaxJobs
<1> USE DEF IInv
<1> SUFFICES ASSUME Len(queue) >= MaxJobs PROVE FALSE
  BY SchedulerAssumption DEF TypeOK
<1>1. queue \in Seq(Slots) /\ Len(queue) = MaxJobs /\ MaxJobs \in Nat \ {0} /\ Cap >= 2 /\ Cap \in Nat
  BY SchedulerAssumption DEF TypeOK
<1> DEFINE s == tslot[i]
<1>2. s \in Slots /\ jobs[s].timer = i /\ fired[i] = 0
  BY DEF TimersInv, FiredInv, JobsInv, Ids, Broken
<1>3. \A t \in Slots : jobs[t].timer # 0 => Pointers(queue, t) <= 1
  <2> SUFFICES ASSUME NEW t \in Slots, jobs[t].timer # 0 PROVE Pointers(queue, t) <= 1
    OBVIOUS
  <2> DEFINE j == jobs[t].timer
  <2>1. j \in Ids
    BY SchedulerAssumption DEF TypeOK, Job, Id0, Ids
  <2>2. fired[j] <= 1 /\ fired[j] \in Nat /\ started[j] \in Nat
    <3>1. j \notin repeats
      BY DEF JobsInv
    <3> QED BY <2>1, <3>1, SchedulerAssumption DEF FiredInv, TypeOK
  <2>3. fired[j] = Cap \/ started[j] + Pointers(queue, t) <= fired[j]
    BY DEF Sound
  <2>4. Pointers(queue, t) \in Nat
    BY <1>1, PointersType
  <2> HIDE DEF j
  <2> QED BY <1>1, <2>2, <2>3, <2>4
<1>4. Pointers(queue, s) = 0
  <2>1. started[i] \in Nat /\ Pointers(queue, s) \in Nat
    BY <1>1, <1>2, PointersType, SchedulerAssumption DEF TypeOK
  <2>2. fired[i] = Cap \/ started[i] + Pointers(queue, s) <= fired[i]
    BY <1>2 DEF Sound, Ids
  <2> HIDE DEF s
  <2> QED BY <1>1, <1>2, <2>1, <2>2
<1>5. \A k \in 1 .. Len(queue) : queue[k] # s
  BY <1>1, <1>2, <1>4, PointersNone
<1>6. PICK k \in 1 .. MaxJobs, l \in 1 .. MaxJobs : k # l /\ queue[k] = queue[l]
  BY <1>1, <1>2, <1>5, Crowded
<1>7. queue[k] \in Slots
  BY <1>1
<1>8. Pointers(queue, queue[k]) >= 2
  BY <1>1, <1>6, PointersTwice
<1>9. jobs[queue[k]].timer # 0
  BY <1>1 DEF Sound
<1>10. Pointers(queue, queue[k]) <= 1 /\ Pointers(queue, queue[k]) \in Nat
  BY <1>1, <1>3, <1>7, <1>9, PointersType
<1> QED BY <1>8, <1>10

\* timer_callback
LEMMA ExpireStep ==
    ASSUME IInv, NEW i \in Ids, TimerCallback(i)
    PROVE  IInv'
<1> USE DEF IInv
<1> DEFINE after == IF i \in repeats THEN AutoReload ELSE OneShot
<1>1. /\ timer[i] \in {"armed", "doomed"}
      /\ timer' = [timer EXCEPT ![i] = after[timer[i]]]
      /\ tslot' = TslotKept /\ Counts([fired EXCEPT ![i] = Saturated(fired[i])], started)
      /\ UNCHANGED <<up, workerTask, jobs, worker, nextId, cancelled, repeats, late>>
  BY DEF TimerCallback, Expires
<1>2. \/ ~HasQueue /\ UNCHANGED <<queue, dropped, stale>>
      \/ /\ HasQueue
         /\ queue' = IF Len(queue) < MaxJobs THEN Append(queue, tslot[i]) ELSE queue
         /\ dropped' = IF Len(queue) < MaxJobs \/ i \in repeats THEN dropped
                       ELSE dropped \cup {i}
         /\ stale' = (stale \/ timer[i] = "doomed")
  BY DEF TimerCallback, Expires
<1>2a. Broken => Broken'
  BY <1>1, <1>2 DEF Broken
<1> DEFINE f == [fired EXCEPT ![i] = Saturated(fired[i])]
<1>2b. f \in [Ids -> 0 .. Cap] /\ f[i] = Saturated(fired[i]) /\ \A j \in Ids : j # i => f[j] = fired[j]
  <2>1. Saturated(fired[i]) \in 0 .. Cap
    BY SchedulerAssumption DEF TypeOK, Saturated
  <2> QED BY <2>1 DEF TypeOK
<1>2c. Counts(f, started)
  BY <1>1
<1> HIDE DEF f
<1>2d. /\ fired' \in [Ids -> 0 .. Cap] /\ started' \in [Ids -> 0 .. Cap]
       /\ \A j \in Ids : fired'[j] \in {f[j], 0} /\ started'[j] \in {started[j], 0}
       /\ ~Broken' => fired' = f /\ started' = started
  BY <1>2b, <1>2c, CountsAre DEF TypeOK
<1>2e. /\ tslot' \in [Ids -> 0 .. MaxJobs]
       /\ \A j \in Ids : timer'[j] # "none" => tslot'[j] = tslot[j]
  BY <1>1, SchedulerAssumption DEF TypeOK, TslotKept
<1>3. /\ after[timer[i]] \in TimerStates
      /\ after[timer[i]] \in {"armed", "dormant"} <=> timer[i] = "armed"
      /\ i \notin repeats => after[timer[i]] \notin {"armed", "doomed"}
      /\ after[timer[i]] \in {"armed", "doomed", "dormant", "none"}
  BY <1>1 DEF OneShot, AutoReload, TimerStates
<1> HIDE DEF after
<1>4. timer'[i] = after[timer[i]] /\ \A j \in Ids : j # i => timer'[j] = timer[j]
  BY <1>1 DEF TypeOK
<1>5. /\ fired[i] \in 0 .. Cap /\ started[i] \in 0 .. Cap
      /\ f[i] = Cap \/ f[i] = fired[i] + 1
      /\ f[i] \in 0 .. Cap /\ f[i] >= fired[i]
  BY <1>2b, SchedulerAssumption DEF TypeOK, Saturated
<1>6. i <= nextId
  BY <1>1 DEF FiredInv, TypeOK, Ids
<1>7. \A j \in Ids : timer'[j] \in {"armed", "dormant"} <=> timer[j] \in {"armed", "dormant"}
  BY <1>1, <1>3, <1>4
<1>8. late = {} /\ timer[i] = "armed" => tslot[i] \in Slots /\ jobs[tslot[i]].timer = i
  BY DEF TimersInv
<1>9. tslot[i] \in Slots
  BY <1>1 DEF TimersInv
<1>10. TypeOK'
  <2>1. queue' \in Seq(Slots) /\ Len(queue') <= MaxJobs
    <3>1. queue \in Seq(Slots) /\ Len(queue) <= MaxJobs /\ Len(queue) \in Nat /\ MaxJobs \in Nat
      BY SchedulerAssumption DEF TypeOK
    <3> DEFINE q == Append(queue, tslot[i])
    <3>2. q \in Seq(Slots) /\ Len(q) = Len(queue) + 1
      BY <1>9, <3>1
    <3> HIDE DEF q
    <3>3. queue' = queue \/ (Len(queue) < MaxJobs /\ queue' = q)
      BY <1>2 DEF q
    <3> QED BY <3>1, <3>2, <3>3
  <2>2. timer' \in [Ids -> TimerStates]
    BY <1>1, <1>3, <1>4 DEF TypeOK
  <2>3. dropped' \in SUBSET Ids /\ stale' \in BOOLEAN
    BY <1>2 DEF TypeOK
  <2> QED BY <1>1, <1>2d, <1>2e, <2>1, <2>2, <2>3 DEF TypeOK
<1>11. JobsInv' /\ NamesUnique'
  BY <1>1 DEF JobsInv, NamesUnique, Occupied
<1>12. TimersInv'
  <2>1. \A t \in Slots : jobs[t].timer # 0 => jobs[t].timer \in Ids
    BY SchedulerAssumption DEF TypeOK, Job, Id0, Ids
  <2>2. \A j \in Ids : timer'[j] # "none" => tslot[j] \in Slots
    BY <1>4, <1>9 DEF TimersInv
  <2>3. \A j \in Ids : timer'[j] \in {"armed", "dormant"} => tslot'[j] = tslot[j]
    BY <1>2e
  <2> QED BY <1>1, <1>2e, <1>7, <2>1, <2>2, <2>3 DEF TimersInv
<1>13. FiredInv'
  <2>1. ASSUME NEW j \in Ids, j \notin repeats
        PROVE  fired'[j] <= 1 /\ (timer'[j] \in {"armed", "doomed"} => fired'[j] = 0)
    <3>1. CASE j = i
      <4>1. fired[i] = 0
        BY <1>1, <2>1, <3>1 DEF FiredInv
      <4>2. f[i] <= 1
        BY <1>2b, <4>1, SchedulerAssumption DEF Saturated
      <4> QED BY <1>2d, <1>3, <1>4, <2>1, <3>1, <4>2
    <3>2. CASE j # i
      BY <1>2b, <1>2d, <1>4, <2>1, <3>2 DEF FiredInv
    <3> QED BY <3>1, <3>2
  <2>2. ASSUME NEW j \in Ids, j > nextId
        PROVE  timer'[j] = "none" /\ fired'[j] = 0 /\ started'[j] = 0 /\ j \notin repeats
    <3>1. j # i
      BY <1>6, <2>2 DEF TypeOK, Ids
    <3> QED BY <1>2b, <1>2d, <1>4, <2>2, <3>1 DEF FiredInv
  <2> QED BY <1>1, <2>1, <2>2 DEF FiredInv
<1>14. ~Broken' => Sound'
  <2> SUFFICES ASSUME ~Broken' PROVE Sound'
    OBVIOUS
  <2>1. ~Broken /\ late = {} /\ ~stale'
    BY <1>2a DEF Broken
  <2>1a. fired' = f /\ started' = started
    BY <1>2d
  <2>2. CASE ~HasQueue
    <3>1. queue' = queue /\ \A s \in Slots : jobs[s].timer = 0
      BY <1>2, <2>1, <2>2 DEF JobsInv, HasQueue
    <3>2. \A j \in Ids : started'[j] <= fired'[j]
      BY <1>2b, <1>5, <2>1, <2>1a DEF Sound
    <3> QED BY <1>1, <2>1, <2>1a, <3>1, <3>2 DEF Sound, Occupied
  <2>3. CASE HasQueue
    <3> DEFINE s == tslot[i]
    <3>1. timer[i] = "armed" /\ s \in Slots /\ jobs[s].timer = i
      BY <1>1, <1>2, <1>8, <2>1, <2>3
    <3>2. queue \in Seq(Slots) /\ (queue' = queue \/ queue' = Append(queue, s))
      BY <1>2, <2>3 DEF TypeOK
    <3>3. \A t \in Slots : t # s => jobs[t].timer # i /\ Pointers(queue', t) = Pointers(queue, t)
      <4>1. ASSUME NEW t \in Slots, t # s PROVE jobs[t].timer # i
        BY <3>1, <4>1 DEF JobsInv, Ids
      <4>2. ASSUME NEW t \in Slots, t # s PROVE Pointers(queue', t) = Pointers(queue, t)
        <5>1. Pointers(queue, t) \in Nat
          BY <3>2, PointersType
        <5>2. Pointers(Append(queue, s), t) = Pointers(queue, t)
          BY <3>1, <3>2, <4>2, <5>1, PointersAppend
        <5> QED BY <3>2, <5>2
      <4> QED BY <4>1, <4>2
    <3>4. Pointers(queue', s) <= Pointers(queue, s) + 1 /\ Pointers(queue', s) \in Nat
          /\ Pointers(queue, s) \in Nat
      <4>1. Pointers(queue, s) \in Nat
        BY <3>1, <3>2, PointersType
      <4>2. Pointers(Append(queue, s), s) = Pointers(queue, s) + 1
        BY <3>1, <3>2, PointersAppend
      <4> DEFINE p == Pointers(queue, s)
      <4>3. p \in Nat /\ (Pointers(queue', s) = p \/ Pointers(queue', s) = p + 1)
        BY <3>2, <4>1, <4>2
      <4> HIDE DEF p
      <4>4. Pointers(queue', s) <= p + 1 /\ Pointers(queue', s) \in Nat
        BY <4>3
      <4> QED BY <4>1, <4>4 DEF p
    <3>5. \A k \in 1 .. Len(queue') : jobs[queue'[k]].timer # 0
      <4> DEFINE q == Append(queue, s)
      <4>1. /\ Len(queue) \in Nat /\ Len(q) = Len(queue) + 1 /\ q[Len(queue) + 1] = s
            /\ \A k \in 1 .. Len(queue) : q[k] = queue[k]
        BY <3>1, <3>2
      <4> HIDE DEF q
      <4>2. \A k \in 1 .. Len(queue) : jobs[queue[k]].timer # 0
        BY <2>1 DEF Sound
      <4>3. jobs[s].timer # 0
        BY <3>1 DEF Ids
      <4>4. \A k \in 1 .. Len(q) : jobs[q[k]].timer # 0
        BY <4>1, <4>2, <4>3
      <4> QED BY <3>2, <4>2, <4>4 DEF q
    <3>6. \A j \in Ids : started'[j] <= fired'[j]
      BY <1>2b, <1>5, <2>1, <2>1a DEF Sound
    <3>7. ASSUME NEW t \in Slots, jobs[t].timer # 0
          PROVE  f[jobs[t].timer] = Cap
                 \/ started[jobs[t].timer] + Pointers(queue', t) <= f[jobs[t].timer]
      <4>1. CASE t = s
        <5>1. fired[i] = Cap \/ started[i] + Pointers(queue, s) <= fired[i]
          BY <2>1, <3>1, <3>7, <4>1 DEF Sound
        <5>2. fired[i] = Cap => f[i] = Cap
          BY <1>5, SchedulerAssumption
        <5> HIDE DEF s
        <5> QED BY <1>5, <3>1, <3>4, <4>1, <5>1, <5>2
      <4>2. CASE t # s
        <5>1. jobs[t].timer \in Ids /\ jobs[t].timer # i
          BY <3>3, <3>7, <4>2, SchedulerAssumption DEF TypeOK, Job, Id0, Ids
        <5> QED BY <1>2b, <2>1, <3>3, <3>7, <4>2, <5>1 DEF Sound
      <4> QED BY <4>1, <4>2
    <3>8. \A t \in Slots : Occupied(t)' <=> Occupied(t)
      BY <1>1 DEF Occupied
    <3> HIDE DEF s
    <3> QED BY <1>1, <2>1, <2>1a, <3>5, <3>6, <3>7, <3>8 DEF Sound
  <2> QED BY <2>2, <2>3
<1>15. OnlyRepeatsOverflow'
  <2> SUFFICES ASSUME dropped' # {}, repeats = {}, ~Broken' PROVE FALSE
    BY <1>1 DEF OnlyRepeatsOverflow
  <2>1. ~Broken /\ dropped = {} /\ ~stale'
    BY <1>2a DEF OnlyRepeatsOverflow, Broken
  <2>2. timer[i] = "armed" /\ ~(Len(queue) < MaxJobs)
    BY <1>1, <1>2, <2>1
  <2>3. \A t \in Slots : ~jobs[t].repeat
    BY <2>1 DEF JobsInv, Sound, Cleared
  <2> QED BY <2>1, <2>2, <2>3, OneShotsFit
<1> QED BY <1>10, <1>11, <1>12, <1>13, <1>14, <1>15

\* The commands that stop and delete a timer are executed.
LEMMA DeletedStep ==
    ASSUME IInv, NEW i \in Ids, TimerDeleted(i)
    PROVE  IInv'
<1> USE DEF IInv
<1>1. /\ timer[i] = "doomed" /\ timer'[i] = "none" /\ \A j \in Ids : j # i => timer'[j] = timer[j]
      /\ timer' \in [Ids -> TimerStates]
      /\ UNCHANGED <<up, workerTask, jobs, queue, worker, nextId, fired, started,
                     cancelled, dropped, repeats, stale, late>>
  BY DEF TimerDeleted, TypeOK, TimerStates
<1>1a. /\ tslot' \in [Ids -> 0 .. MaxJobs]
       /\ \A j \in Ids : timer'[j] # "none" => tslot'[j] = tslot[j]
  BY SchedulerAssumption DEF TimerDeleted, TypeOK, TslotKept
<1>2. TypeOK'
  BY <1>1, <1>1a DEF TypeOK
<1>3. JobsInv' /\ NamesUnique' /\ FiredInv' /\ OnlyRepeatsOverflow'
  BY <1>1 DEF JobsInv, NamesUnique, FiredInv, OnlyRepeatsOverflow, Occupied, Broken
<1>4. TimersInv'
  <2>1. \A t \in Slots : jobs[t].timer # 0 => jobs[t].timer \in Ids
    BY SchedulerAssumption DEF TypeOK, Job, Id0, Ids
  <2>2. \A j \in Ids : /\ timer'[j] \in {"armed", "dormant"} <=> timer[j] \in {"armed", "dormant"}
                       /\ timer'[j] # "none" => timer[j] # "none"
                       /\ timer[j] \in {"armed", "dormant"} => tslot'[j] = tslot[j]
    BY <1>1, <1>1a
  <2> QED BY <1>1, <1>1a, <2>1, <2>2 DEF TimersInv
<1>5. ~Broken' => Sound'
  BY <1>1 DEF Sound, Occupied, Broken
<1> QED BY <1>2, <1>3, <1>4, <1>5

-----------------------------------------------------------------------------
(* The worker *)

\* worker_task receives a pointer.
LEMMA StartStep ==
    ASSUME IInv, WorkerStarts
    PROVE  IInv'
<1> USE DEF IInv
<1> DEFINE s == Head(queue)
           i == jobs[s].id
<1>1. /\ worker.slot = 0 /\ queue # <<>>
      /\ worker' = [slot |-> s, id |-> i]
      /\ Counts(fired, IF i = 0 THEN started
                       ELSE [started EXCEPT ![i] = Saturated(started[i])])
      /\ queue' = Tail(queue)
      /\ UNCHANGED <<up, workerTask, jobs, timer, tslot, nextId, cancelled, dropped, repeats,
                     stale, late>>
  BY DEF WorkerStarts
<1>2. /\ queue \in Seq(Slots) /\ Len(queue) \in Nat \ {0} /\ s \in Slots
      /\ queue' \in Seq(Slots) /\ Len(queue') = Len(queue) - 1
      /\ \A k \in 1 .. Len(queue') : queue'[k] = queue[k + 1]
      /\ s = queue[1]
  BY <1>1 DEF TypeOK
<1>3. i \in Id0 /\ i = jobs[s].timer /\ (i # 0 => i \in Ids)
  <2>1. jobs[s] \in Job /\ jobs[s].id = jobs[s].timer
    BY <1>2 DEF TypeOK, JobsInv
  <2>2. i \in Id0
    BY <2>1 DEF Job
  <2> QED BY <2>1, <2>2, SchedulerAssumption DEF Id0, Ids
<1> DEFINE g == IF i = 0 THEN started ELSE [started EXCEPT ![i] = Saturated(started[i])]
<1>3a. Counts(fired, g)
  BY <1>1
<1> HIDE DEF s, i
<1>4. i # 0 => /\ g[i] = Saturated(started[i])
               /\ started[i] \in 0 .. Cap /\ fired[i] \in 0 .. Cap
               /\ g[i] \in 0 .. Cap /\ g[i] >= 1
               /\ started[i] < Cap => g[i] = started[i] + 1
  BY <1>3, SchedulerAssumption DEF TypeOK, Saturated
<1>5. \A j \in Ids : j # i => g[j] = started[j]
  BY <1>3 DEF TypeOK
<1>5a. g \in [Ids -> 0 .. Cap]
  BY <1>3, <1>4 DEF TypeOK
<1> HIDE DEF g
<1>5b. /\ fired' \in [Ids -> 0 .. Cap] /\ started' \in [Ids -> 0 .. Cap]
       /\ \A j \in Ids : fired'[j] \in {fired[j], 0} /\ started'[j] \in {g[j], 0}
       /\ ~Broken' => fired' = fired /\ started' = g
  BY <1>3a, <1>5a, CountsAre DEF TypeOK
<1>6. worker'.slot = s
  BY <1>1
<1>7. TypeOK'
  <2>1. worker' \in [slot : 0 .. MaxJobs, id : Id0]
    BY <1>1, <1>2, <1>3, SchedulerAssumption DEF Slots
  <2>2. Len(queue') <= MaxJobs
    BY <1>2, SchedulerAssumption DEF TypeOK
  <2> QED BY <1>1, <1>2, <1>5b, <2>1, <2>2 DEF TypeOK
<1>8. JobsInv' /\ NamesUnique' /\ TimersInv' /\ OnlyRepeatsOverflow'
  BY <1>1 DEF JobsInv, NamesUnique, TimersInv, OnlyRepeatsOverflow, Occupied, Broken
<1>9. FiredInv'
  <2>1. i <= nextId
    BY <1>2 DEF JobsInv, i
  <2> QED BY <1>1, <1>3, <1>5, <1>5b, <2>1 DEF FiredInv, TypeOK, Ids, Id0
<1>10. ~Broken' => Sound'
  <2> SUFFICES ASSUME ~Broken, fired' = fired, started' = g PROVE Sound'
    BY <1>1, <1>5b DEF Broken
  <2>1. i # 0 /\ i \in Ids /\ jobs[s].timer = i
    BY <1>2, <1>3 DEF Sound
  <2>2. \A t \in Slots : t # s => jobs[t].timer # i /\ jobs[t].id # i
    BY <1>2, <2>1 DEF JobsInv, i
  <2>3. \A t \in Slots : jobs[t].timer # 0 => jobs[t].timer \in Ids
    BY SchedulerAssumption DEF TypeOK, Job, Id0, Ids
  <2>4. /\ Pointers(queue, s) = Pointers(queue', s) + 1
        /\ Pointers(queue, s) \in Nat /\ Pointers(queue', s) \in Nat
        /\ \A t \in Slots : t # s => Pointers(queue', t) = Pointers(queue, t)
    <3>1. \A t \in Slots : Pointers(queue, t) \in Nat /\ Pointers(queue', t) \in Nat
      BY <1>2, PointersType
    <3>2. \A t \in Slots : Pointers(queue, t) = Pointers(queue', t) + (IF s = t THEN 1 ELSE 0)
      BY <1>1, <1>2, PointersTail DEF s
    <3> QED BY <1>2, <3>1, <3>2
  <2>5. fired[i] = Cap \/ started[i] + Pointers(queue, s) <= fired[i]
    BY <1>2, <2>1 DEF Sound
  <2>6. g[i] <= fired[i] /\ (fired[i] = Cap \/ g[i] + Pointers(queue', s) <= fired[i])
    BY <1>4, <2>1, <2>4, <2>5, SchedulerAssumption
  <2>7. \A k \in 1 .. Len(queue') : jobs'[queue'[k]].timer # 0
    BY <1>1, <1>2 DEF Sound
  <2>8. worker'.slot # 0 => jobs'[worker'.slot].timer # 0 /\ started'[jobs'[worker'.slot].timer] >= 1
    BY <1>1, <1>4, <1>6, <2>1
  <2>9. \A j \in Ids : started'[j] <= fired'[j]
    BY <1>1, <1>5, <2>6 DEF Sound
  <2>10. \A t \in Slots : jobs'[t].timer # 0 =>
           fired'[jobs'[t].timer] = Cap
           \/ started'[jobs'[t].timer] + Pointers(queue', t) <= fired'[jobs'[t].timer]
    BY <1>1, <1>5, <2>1, <2>2, <2>3, <2>4, <2>6 DEF Sound
  <2>11. ASSUME NEW t \in Slots, Occupied(t)'
         PROVE  /\ jobs'[t].timer # 0
                /\ jobs'[t].running = ~jobs'[t].completed
                /\ jobs'[t].completed =
                     (~jobs'[t].repeat /\ started'[jobs'[t].id] = 1 /\ worker'.slot # t)
    <3>1. Occupied(t) /\ jobs' = jobs
      BY <1>1, <2>11 DEF Occupied
    <3>2. CASE t # s
      <4>1. jobs[t].id \in Ids /\ jobs[t].id # i
        BY <2>2, <2>3, <3>1, <3>2 DEF Sound, JobsInv
      <4> QED BY <1>1, <1>2, <1>5, <1>6, <3>1, <3>2, <4>1, SchedulerAssumption DEF Sound, Slots
    <3>3. CASE t = s
      <4>1. ~jobs[s].completed
        <5> SUFFICES ASSUME jobs[s].completed PROVE FALSE
          OBVIOUS
        <5>1. ~jobs[s].repeat /\ started[i] = 1
          BY <3>1, <3>3 DEF Sound, i
        <5>2. fired[i] <= 1
          BY <1>2, <2>1, <5>1 DEF JobsInv, FiredInv, i
        <5> QED BY <1>4, <2>1, <2>4, <2>5, <5>1, <5>2, SchedulerAssumption
      <4>2. jobs[s] \in Job
        BY <1>2 DEF TypeOK
      <4> QED BY <1>6, <3>1, <3>3, <4>1, <4>2 DEF Sound, Job
    <3> QED BY <3>2, <3>3
  <2> QED BY <2>7, <2>8, <2>9, <2>10, <2>11 DEF Sound
<1> QED BY <1>7, <1>8, <1>9, <1>10

\* worker_task marks the job done through the pointer it kept.
LEMMA FinishStep ==
    ASSUME IInv, WorkerFinishes
    PROVE  IInv'
<1> USE DEF IInv
<1> DEFINE w == worker.slot
           done == [jobs[w] EXCEPT !.completed = TRUE, !.running = FALSE]
<1>1. /\ w # 0 /\ worker' = Idle
      /\ jobs' = IF jobs[w].repeat THEN jobs ELSE [jobs EXCEPT ![w] = done]
      /\ UNCHANGED <<up, workerTask, timer, tslot, queue, nextId, fired, started, cancelled,
                     dropped, repeats, stale, late>>
  BY DEF WorkerFinishes
<1>2. w \in Slots /\ jobs[w] \in Job
  BY <1>1, SchedulerAssumption DEF TypeOK, Slots
<1>3. /\ done \in Job /\ done.id = jobs[w].id /\ done.timer = jobs[w].timer
      /\ done.name = jobs[w].name /\ done.repeat = jobs[w].repeat
      /\ done.completed = TRUE /\ done.running = FALSE
  BY <1>2 DEF Job
<1> HIDE DEF done
<1>4. /\ \A t \in Slots : t # w => jobs'[t] = jobs[t]
      /\ jobs[w].repeat => jobs'[w] = jobs[w]
      /\ ~jobs[w].repeat => jobs'[w] = done
  BY <1>1, <1>2 DEF TypeOK
<1> HIDE DEF w
<1>5. \A t \in Slots : /\ jobs'[t].id = jobs[t].id /\ jobs'[t].timer = jobs[t].timer
                       /\ jobs'[t].name = jobs[t].name /\ jobs'[t].repeat = jobs[t].repeat
  BY <1>2, <1>3, <1>4
<1>6. \A t \in Slots : t # w \/ jobs[w].repeat => jobs'[t] = jobs[t]
  BY <1>2, <1>4
<1>7. \A t \in Slots : Occupied(t) => Occupied(t)'
  BY <1>2, <1>3, <1>4 DEF Occupied
<1>8. \A t \in Slots : Occupied(t)' => Occupied(t) \/ t = w
  BY <1>4 DEF Occupied
<1>9. TypeOK'
  <2>1. jobs' \in [Slots -> Job]
    BY <1>1, <1>2, <1>3 DEF TypeOK
  <2>2. worker' \in [slot : 0 .. MaxJobs, id : Id0]
    BY <1>1, SchedulerAssumption DEF Idle, Id0
  <2> QED BY <1>1, <2>1, <2>2 DEF TypeOK
<1>10. JobsInv'
  <2>1. \A t \in Slots : (Occupied(t) \/ jobs[t] = Cleared)'
    <3> SUFFICES ASSUME NEW t \in Slots PROVE Occupied(t)' \/ jobs'[t] = Cleared
      OBVIOUS
    <3>1. CASE t = w /\ ~jobs[w].repeat
      BY <1>3, <1>4, <3>1 DEF Occupied
    <3>2. CASE ~(t = w /\ ~jobs[w].repeat)
      BY <1>6, <1>7, <3>2 DEF JobsInv
    <3> QED BY <3>1, <3>2
  <2>2. \A t \in Slots : /\ jobs[t].id = jobs[t].timer /\ jobs[t].id <= nextId
                         /\ jobs[t].id # 0 => jobs[t].id \notin cancelled
                         /\ jobs[t].id # 0 => (jobs[t].repeat <=> jobs[t].id \in repeats)
                         /\ late = {} /\ up # "up" => jobs[t].timer = 0
    BY DEF JobsInv
  <2>3. \A t, u \in Slots : jobs'[t].id = jobs'[u].id /\ jobs'[t].id # 0 => t = u
    BY <1>5 DEF JobsInv
  <2>4. \A i \in cancelled' : i <= nextId'
    BY <1>1 DEF JobsInv
  <2> QED BY <1>1, <1>5, <2>1, <2>2, <2>3, <2>4 DEF JobsInv
<1>11. NamesUnique'
  <2>1. ~Occupied(w) => jobs[w].name = NoName
    <3>1. ~Occupied(w) => jobs[w] = Cleared
      BY <1>2 DEF JobsInv
    <3> QED BY <3>1 DEF Cleared
  <2>2. \A t \in Slots : Occupied(t)' /\ jobs'[t].name # NoName => Occupied(t)
    BY <1>5, <1>8, <2>1
  <2> QED BY <1>5, <2>2 DEF NamesUnique
<1>12. TimersInv' /\ FiredInv' /\ OnlyRepeatsOverflow'
  <2>1. late = {} => \A i \in Ids : timer[i] \in {"armed", "dormant"} =>
          tslot[i] \in Slots /\ jobs'[tslot[i]].timer = i
    BY <1>5 DEF TimersInv
  <2>2. \A t \in Slots : jobs'[t].timer # 0 =>
          timer[jobs'[t].timer] \in {"armed", "dormant"} /\ tslot[jobs'[t].timer] = t
    BY <1>5 DEF TimersInv
  <2> QED BY <1>1, <2>1, <2>2 DEF TimersInv, FiredInv, OnlyRepeatsOverflow, Broken
<1>13. ~Broken' => Sound'
  <2> SUFFICES ASSUME ~Broken PROVE Sound'
    BY <1>1 DEF Broken
  <2> DEFINE i == jobs[w].timer
  <2>1. i # 0 /\ started[i] >= 1 /\ Occupied(w)
    BY <1>1 DEF Sound, Occupied, w
  <2>2. i \in Ids /\ i = jobs[w].id
    BY <1>2, <2>1, SchedulerAssumption DEF JobsInv, Job, Id0, Ids
  <2>3. ~jobs[w].completed
    BY <1>2, <2>1 DEF Sound, w
  <2>4. ~jobs[w].repeat => started[i] = 1
    <3> SUFFICES ASSUME ~jobs[w].repeat PROVE started[i] = 1
      OBVIOUS
    <3>1. i \notin repeats
      BY <1>2, <2>1, <2>2 DEF JobsInv
    <3>2. fired[i] <= 1 /\ started[i] <= fired[i]
      BY <2>2, <3>1 DEF FiredInv, Sound
    <3>3. fired[i] \in Nat /\ started[i] \in Nat
      BY <2>2, SchedulerAssumption DEF TypeOK
    <3> HIDE DEF i
    <3> QED BY <2>1, <3>2, <3>3
  <2>5. \A k \in 1 .. Len(queue') : jobs'[queue'[k]].timer # 0
    <3>1. \A k \in 1 .. Len(queue) : queue[k] \in Slots
      BY DEF TypeOK
    <3> QED BY <1>1, <1>5, <3>1 DEF Sound
  <2>6. worker'.slot = 0
    BY <1>1 DEF Idle
  <2>7. \A t \in Slots : jobs'[t].timer # 0 =>
          fired'[jobs'[t].timer] = Cap
          \/ started'[jobs'[t].timer] + Pointers(queue', t) <= fired'[jobs'[t].timer]
    BY <1>1, <1>5 DEF Sound
  <2>8. \A j \in Ids : started'[j] <= fired'[j]
    BY <1>1 DEF Sound
  <2>9. ASSUME NEW t \in Slots, Occupied(t)'
        PROVE  /\ jobs'[t].timer # 0
               /\ jobs'[t].running = ~jobs'[t].completed
               /\ jobs'[t].completed =
                    (~jobs'[t].repeat /\ started'[jobs'[t].id] = 1 /\ worker'.slot # t)
    <3>1. t # 0 /\ Occupied(t)
      BY <1>8, <2>1, <2>9 DEF Slots
    <3>2. CASE t # w
      <4>1. jobs'[t] = jobs[t] /\ worker.slot # t /\ worker'.slot # t
        BY <1>4, <2>6, <3>1, <3>2 DEF w
      <4> QED BY <1>1, <3>1, <4>1 DEF Sound
    <3>3. CASE t = w /\ jobs[w].repeat
      <4>1. jobs'[t] = jobs[t] /\ jobs[t].running = ~jobs[t].completed /\ jobs[t].timer # 0
        BY <1>4, <2>9, <3>1, <3>3 DEF Sound
      <4>2. jobs[t].completed = FALSE /\ jobs[t].repeat
        BY <1>2, <2>3, <3>3 DEF Job
      <4> QED BY <4>1, <4>2
    <3>4. CASE t = w /\ ~jobs[w].repeat
      <4>1. /\ jobs'[t].timer # 0 /\ jobs'[t].completed = TRUE /\ jobs'[t].running = FALSE
            /\ ~jobs'[t].repeat /\ jobs'[t].id = i
        BY <1>3, <1>4, <2>1, <2>2, <3>4
      <4>2. started'[i] = 1 /\ worker'.slot # t
        BY <1>1, <2>4, <2>6, <3>1, <3>4
      <4> QED BY <4>1, <4>2
    <3> QED BY <3>2, <3>3, <3>4
  <2> QED BY <2>5, <2>6, <2>7, <2>8, <2>9 DEF Sound
<1> QED BY <1>9, <1>10, <1>11, <1>12, <1>13

-----------------------------------------------------------------------------
(* Theorems *)

\* The invariant holds when the system starts, and when it starts again.
LEMMA Starts == Init => IInv
<1> SUFFICES ASSUME Init PROVE IInv
  OBVIOUS
<1>1. /\ Cleared.timer = 0 /\ Cleared.id = 0 /\ ~Cleared.running /\ ~Cleared.completed
      /\ Cleared \in Job
  BY SchedulerAssumption DEF Cleared, Job, Id0
<1>2. \A s \in Slots : jobs[s] = Cleared /\ ~Occupied(s)
  BY <1>1 DEF Init, Occupied
<1>3. TypeOK
  <2>1. jobs \in [Slots -> Job] /\ timer \in [Ids -> TimerStates] /\ tslot \in [Ids -> 0 .. MaxJobs]
    BY <1>1, SchedulerAssumption DEF Init, TimerStates
  <2>2. queue \in Seq(Slots) /\ Len(queue) <= MaxJobs /\ nextId \in 0 .. MaxIds
    BY SchedulerAssumption DEF Init
  <2>3. worker \in [slot : 0 .. MaxJobs, id : Id0]
    BY SchedulerAssumption DEF Init, Idle, Id0
  <2>4. fired \in [Ids -> 0 .. Cap] /\ started \in [Ids -> 0 .. Cap]
    BY SchedulerAssumption DEF Init, Zeros
  <2> QED BY <2>1, <2>2, <2>3, <2>4 DEF Init, TypeOK
<1>4. JobsInv /\ NamesUnique
  BY <1>1, <1>2 DEF Init, JobsInv, NamesUnique
<1>5. TimersInv /\ FiredInv /\ OnlyRepeatsOverflow
  BY <1>1, <1>2 DEF Init, TimersInv, FiredInv, OnlyRepeatsOverflow, Zeros, Ids
<1>6. Sound
  BY <1>1, <1>2 DEF Init, Sound, Idle, Zeros
<1> QED BY <1>3, <1>4, <1>5, <1>6 DEF IInv

\* A panic restarts the system.
LEMMA PanicStep == Panic => IInv'
<1>1. Panic => Init'
  BY DEF Panic, Init
<1> QED BY <1>1, Starts, PTL

\* The inductive invariant holds in every state of the scheduler.
THEOREM Inductive == Spec => []IInv
<1>1. Init => IInv
  BY Starts
<1>2. IInv /\ [Next]_vars => IInv'
  <2> SUFFICES ASSUME IInv, [Next]_vars PROVE IInv'
    OBVIOUS
  <2>1. CASE SchedulerInit
    BY <2>1, InitStep
  <2>2. CASE CmdAt \/ CmdEvery
    BY <2>2, ScheduleStep DEF CmdAt, CmdEvery
  <2>3. CASE CmdKilljob
    BY <2>3, CancelStep DEF CmdKilljob
  <2>4. CASE DeinitJobs \/ WorkerDeinits
    <3>1. /\ ClearsJobs /\ up' \in {"up", "stopping"}
          /\ workerTask' \in {"worker", "null", "gone"} /\ worker' \in {worker, Idle}
      BY <2>4 DEF DeinitJobs, WorkerDeinits, ClearsJobs, IInv, TypeOK
    <3> QED BY <3>1, ClearsStep
  <2>5. CASE DeinitTeardown \/ DeinitEnds \/ Panic
    BY <2>5, TeardownStep, PanicStep
  <2>6. CASE \E i \in Ids : TimerCallback(i) \/ TimerDeleted(i)
    BY <2>6, ExpireStep, DeletedStep
  <2>7. CASE WorkerStarts
    BY <2>7, StartStep
  <2>8. CASE WorkerFinishes
    BY <2>8, FinishStep
  <2>9. CASE UNCHANGED vars
    BY <2>9 DEF vars, IInv, TypeOK, JobsInv, NamesUnique, TimersInv, FiredInv, Sound,
                OnlyRepeatsOverflow, Occupied, Broken
  <2> QED BY <2>1, <2>2, <2>3, <2>4, <2>5, <2>6, <2>7, <2>8, <2>9 DEF Next
<1> QED BY <1>1, <1>2, PTL DEF Spec

\* In every state of the scheduler a slot's handle names a live timer that posts the
\* pointer to that slot, and no two jobs share a name; and every live timer belongs to a
\* slot, unless a job was accepted inside os_scheduler_deinit.
THEOREM TimersStayOwned == Spec => []TimersOwned
<1>1. IInv => TimersOwned
  BY DEF IInv, NamesUnique, TimersInv, TimersOwned
<1> QED BY <1>1, Inductive, PTL

\* Until a slot is cleared under a pointer in use or a job is accepted inside
\* os_scheduler_deinit, no command starts more often than its timer expires, one-shots start once at most, and the table shows the true states.
THEOREM JobStatesStaySound == Spec => []JobStateSound
<1>1. IInv => JobStateSound
  BY DEF IInv, FiredInv, Sound, JobStateSound
<1> QED BY <1>1, Inductive, PTL

\* The queue of OS_SCHED_MAX_JOBS pointers is long enough for one-shot jobs, however
\* many slots there are: an expiration is lost only to repeating jobs, stale pointers or
\* jobs accepted inside os_scheduler_deinit.
THEOREM OneShotsNeverOverflow == Spec => []OnlyRepeatsOverflow
<1>1. IInv => OnlyRepeatsOverflow
  BY DEF IInv
<1> QED BY <1>1, Inductive, PTL

\* A cancelled command is never started again: worker_task starts what the slot holds
\* now, and no slot holds a cancelled id.
THEOREM CancelledStayStopped == Spec => CancelledNeverStarts
<1>1. IInv /\ [Next]_vars => [\A i \in cancelled : worker'.id = i => worker.id = i]_vars
  <2> SUFFICES ASSUME IInv, Next, NEW i \in cancelled, worker'.id = i PROVE worker.id = i
    OBVIOUS
  <2>1. i # 0
    BY DEF IInv, TypeOK, Ids
  <2>2. CASE WorkerStarts
    <3>1. Head(queue) \in Slots
      BY <2>2 DEF WorkerStarts, IInv, TypeOK
    <3>2. worker'.id = jobs[Head(queue)].id
      BY <2>2 DEF WorkerStarts
    <3> QED BY <2>1, <3>1, <3>2 DEF IInv, JobsInv
  <2>3. CASE SchedulerInit \/ DeinitTeardown \/ WorkerDeinits \/ Panic \/ WorkerFinishes
    <3>1. worker' = Idle
      BY <2>3 DEF SchedulerInit, DeinitTeardown, WorkerDeinits, Panic, WorkerFinishes
    <3> QED BY <2>1, <3>1 DEF Idle
  <2>4. CASE CmdAt \/ CmdEvery \/ CmdKilljob \/ DeinitJobs \/ DeinitEnds
             \/ \E j \in Ids : TimerCallback(j) \/ TimerDeleted(j)
    <3>1. worker' = worker
      BY <2>4 DEF CmdAt, CmdEvery, CmdKilljob, Schedule, Cancel, DeinitJobs, DeinitEnds,
                  TimerCallback, Expires, TimerDeleted
    <3> QED BY <3>1
  <2> QED BY <2>2, <2>3, <2>4 DEF Next
<1> QED BY <1>1, Inductive, PTL DEF Spec, CancelledNeverStarts
-----------------------------------------------------------------------------
(* The board *)

\* Besides the invariant, until the promise is broken: what runs is the command of the job
\* the worker's pointer leads to.
HeldInv ==
    /\ worker.slot = 0 => worker.id = 0
    /\ ~Broken /\ worker.slot # 0 => worker.id = jobs[worker.slot].id

BoardInv == IInv /\ HeldInv

\* A step of the promise, or none.
BoardMoves == Board!Moves \/ UNCHANGED Board!boardVars

\* What the table says of a slot, until the promise is broken.
LEMMA SlotFacts ==
    ASSUME IInv, ~Broken, NEW s \in Slots
    PROVE  /\ Occupied(s) <=> jobs[s].id # 0
           /\ jobs[s].id = jobs[s].timer /\ jobs[s].id \in Id0
           /\ jobs[s].id # 0 => jobs[s].id \in Ids
           /\ ~Occupied(s) => jobs[s] = Cleared /\ ~jobs[s].completed
           /\ \A t \in Slots : jobs[t].id = jobs[s].id /\ jobs[s].id # 0 => t = s
<1>1. jobs[s].id = jobs[s].timer /\ (Occupied(s) \/ jobs[s] = Cleared)
  BY DEF IInv, JobsInv
<1>2. jobs[s].id \in Id0 /\ (jobs[s].id # 0 => jobs[s].id \in Ids)
  BY SchedulerAssumption DEF IInv, TypeOK, Job, Id0, Ids
<1>3. Occupied(s) <=> jobs[s].id # 0
  BY <1>1 DEF IInv, Sound, Occupied
<1>4. ~Occupied(s) => ~jobs[s].completed
  BY DEF Occupied
<1>5. \A t \in Slots : jobs[t].id = jobs[s].id /\ jobs[s].id # 0 => t = s
  BY DEF IInv, JobsInv
<1> QED BY <1>1, <1>2, <1>3, <1>4, <1>5

\* The line of jobs that are due is as long as the queue of pointers.
LEMMA DueIs ==
    ASSUME IInv
    PROVE  /\ Due \in Seq(Id0) /\ Len(Due) = Len(queue) /\ Len(queue) \in Nat
           /\ \A k \in 1 .. Len(queue) : queue[k] \in Slots /\ Due[k] = jobs[queue[k]].id
<1>1. queue \in Seq(Slots) /\ Len(queue) \in Nat /\ \A k \in 1 .. Len(queue) : queue[k] \in Slots
  BY DEF IInv, TypeOK
<1>2. \A k \in 1 .. Len(queue) : jobs[queue[k]].id \in Id0
  BY <1>1 DEF IInv, TypeOK, Job
<1>3. Due \in [1 .. Len(queue) -> Id0]
  BY <1>2 DEF Due
<1>4. Due \in Seq(Id0) /\ Len(Due) = Len(queue)
  BY <1>1, <1>3
<1> QED BY <1>1, <1>4 DEF Due

\* A step of which the promise knows nothing.
LEMMA Unseen ==
    ASSUME UNCHANGED <<Listed, nextId, Waiting, Winding, Due, worker, Done, Broken>>,
           up' = "up" <=> up = "up"
    PROVE  BoardMoves
BY DEF BoardMoves, Board!boardVars

\* A pointer that is in use when its slot is cleared ends the promise, and a job that is
\* accepted while the board is shut.
LEMMA Overtakes ==
    ASSUME IInv, HeldInv, Broken',
           Broken \/ (\E s \in Slots : Referenced(s)) \/ Winding # {} \/ up # "up"
    PROVE  BoardMoves
<1>1. Broken' = TRUE
  BY DEF Broken
<1>2. ASSUME ~Broken, NEW s \in Slots, Referenced(s) PROVE Due # <<>> \/ worker.id # 0
  <2>1. CASE worker.slot = s
    BY <1>2, <2>1, SlotFacts DEF HeldInv, IInv, Sound, Slots
  <2>2. CASE \E k \in 1 .. Len(queue) : queue[k] = s
    BY <2>2, DueIs
  <2> QED BY <1>2, <2>1, <2>2 DEF Referenced
<1>3. Board!Overtaken
  BY <1>1, <1>2 DEF Board!Overtaken
<1> QED BY <1>3 DEF BoardMoves, Board!Moves

\* Nothing is on the board of a scheduler that is not up.
LEMMA BoardDown ==
    ASSUME BoardInv, ~Broken, up # "up"
    PROVE  /\ \A s \in Slots : ~Occupied(s) /\ jobs[s] = Cleared
           /\ queue = <<>> /\ worker.slot = 0 /\ worker.id = 0
<1>1. \A s \in Slots : jobs[s].timer = 0
  BY DEF BoardInv, IInv, JobsInv, Broken
<1>2. \A s \in Slots : ~Occupied(s) /\ jobs[s] = Cleared
  BY <1>1, SlotFacts DEF BoardInv
<1>3. worker.slot = 0
  BY <1>1, SchedulerAssumption DEF BoardInv, IInv, TypeOK, Sound, Slots
<1>4. queue = <<>>
  <2>1. \A k \in 1 .. Len(queue) : queue[k] \in Slots /\ jobs[queue[k]].timer # 0
    BY DueIs DEF BoardInv, IInv, Sound
  <2>2. Len(queue) = 0
    BY <1>1, <2>1, DueIs DEF BoardInv
  <2> QED BY <2>2 DEF BoardInv, IInv, TypeOK
<1> QED BY <1>2, <1>3, <1>4 DEF BoardInv, HeldInv

\* os_scheduler_init and the rest of os_scheduler_deinit find an empty board.
LEMMA BoardInit ==
    ASSUME BoardInv, ~Broken, SchedulerInit \/ DeinitTeardown \/ DeinitEnds
    PROVE  BoardMoves
<1>1. /\ up # "up" /\ UNCHANGED <<timer, nextId, stale, late>>
      /\ (queue' = <<>> /\ worker' = Idle) \/ UNCHANGED <<queue, worker>>
      /\ jobs' = jobs \/ jobs' = [s \in Slots |-> Cleared]
  BY DEF SchedulerInit, DeinitTeardown, DeinitEnds
<1>2. /\ \A s \in Slots : ~Occupied(s) /\ jobs[s] = Cleared
      /\ queue = <<>> /\ worker.slot = 0 /\ worker.id = 0
  BY <1>1, BoardDown
<1>3. jobs' = jobs
  BY <1>1, <1>2 DEF BoardInv, IInv, TypeOK
<1>4. worker' = worker /\ queue' = queue
  BY <1>1, <1>2 DEF Idle, BoardInv, IInv, TypeOK
<1>5. UNCHANGED <<Listed, Waiting, Winding, Due, Done, Broken>>
  BY <1>1, <1>3, <1>4 DEF Listed, Entry, Occupied, Waiting, Winding, Due, Done, Broken
<1>6. CASE SchedulerInit
  <2>1. Board!Open
    BY <1>1, <1>4, <1>5, <1>6 DEF SchedulerInit, Board!Open
  <2> QED BY <2>1 DEF BoardMoves, Board!Moves
<1>7. CASE DeinitTeardown \/ DeinitEnds
  <2>1. up' # "up"
    BY <1>7 DEF DeinitTeardown, DeinitEnds
  <2> QED BY <1>1, <1>4, <1>5, <2>1, Unseen
<1> QED BY <1>6, <1>7

\* A free slot is a place on the board.
LEMMA BoardHasRoom ==
    ASSUME NEW s \in Slots, ~Occupied(s)
    PROVE  Cardinality(Listed) < MaxJobs
<1> DEFINE D == {t \in Slots : Occupied(t)}
           R == Slots \ {s}
           f == [t \in D |-> Entry(t)]
<1>1. IsFiniteSet(Slots) /\ Cardinality(Slots) = MaxJobs /\ MaxJobs \in Nat
  BY SchedulerAssumption, FS_Interval DEF Slots
<1>2. IsFiniteSet(R) /\ Cardinality(R) = MaxJobs - 1
  BY <1>1, FS_RemoveElement
<1>3. D \in SUBSET R
  OBVIOUS
<1>4. IsFiniteSet(D) /\ Cardinality(D) <= Cardinality(R) /\ Cardinality(D) \in Nat
  <2> HIDE DEF D, R
  <2> QED BY <1>2, <1>3, FS_Subset, FS_CardinalityType
<1>5. f \in Surjection(D, Listed)
  BY DEF Surjection, Listed
<1>6. IsFiniteSet(Listed) /\ Cardinality(Listed) <= Cardinality(D)
  <2> HIDE DEF D, f
  <2> QED BY <1>4, <1>5, FS_Surjection
<1>7. Cardinality(Listed) \in Nat
  BY <1>6, FS_CardinalityType
<1> HIDE DEF D, R
<1> QED BY <1>1, <1>2, <1>4, <1>6, <1>7

\* os_scheduler_schedule puts a job on the board.
LEMMA BoardSchedule ==
    ASSUME BoardInv, ~Broken', NEW n \in Names, NEW rep \in BOOLEAN, Schedule(n, rep)
    PROVE  BoardMoves
<1> DEFINE id == nextId + 1
           job == [id |-> id, name |-> n, repeat |-> rep,
                   running |-> TRUE, completed |-> FALSE, timer |-> id]
<1>0. up = "up" /\ up' = up /\ ~Broken /\ Broken' = Broken
  BY DEF Schedule, Broken
<1>1. PICK s \in Slots : ~Occupied(s) /\ jobs' = [jobs EXCEPT ![s] = job]
  BY DEF Schedule, IsFreeSlot
<1>2. /\ nextId < MaxIds /\ timer' = [timer EXCEPT ![id] = "armed"] /\ nextId' = id
      /\ UNCHANGED <<queue, worker>>
  BY DEF Schedule
<1>3. id \in Ids /\ id # 0 /\ timer[id] = "none" /\ nextId \in Nat
  BY <1>2, SchedulerAssumption DEF BoardInv, IInv, TypeOK, FiredInv, Ids
<1>4. \A t \in Slots : ~(Occupied(t) /\ jobs[t].name = n)
  BY SearchFails DEF Schedule
<1>5. jobs'[s] = job /\ \A t \in Slots : t # s => jobs'[t] = jobs[t]
  BY <1>1 DEF BoardInv, IInv, TypeOK
<1>6. jobs[s].id = 0 /\ ~jobs[s].completed
  BY <1>0, <1>1, SlotFacts DEF BoardInv
<1>7. job.id = id /\ job.name = n /\ job.repeat = rep /\ job.running = TRUE /\ job.completed = FALSE
      /\ job.timer = id
  OBVIOUS
<1> HIDE DEF job, id
<1>8. /\ \A t \in Slots : t # s => (Occupied(t)' <=> Occupied(t)) /\ Entry(t)' = Entry(t)
      /\ Occupied(s)' /\ Entry(s)' = [id |-> id, name |-> n, repeat |-> rep]
  BY <1>5, <1>7 DEF Occupied, Entry
<1>9. Listed' = Listed \cup {[id |-> id, name |-> n, repeat |-> rep]}
  BY <1>1, <1>8 DEF Listed
<1>10. 1 .. nextId' = (1 .. nextId) \cup {id} /\ id \notin 1 .. nextId
  BY <1>2, <1>3 DEF id
<1>11. Waiting' = Waiting \cup {id} /\ Winding' = Winding
  BY <1>2, <1>3 DEF Waiting, Winding, BoardInv, IInv, TypeOK
<1>12. Due' = Due
  <2>1. \A k \in 1 .. Len(queue) : queue[k] \in Slots /\ queue[k] # s
    BY <1>0, <1>6, DueIs DEF BoardInv, IInv, Sound, JobsInv
  <2> QED BY <1>2, <1>5, <2>1 DEF Due
<1>13. Done' = Done
  BY <1>5, <1>6, <1>7 DEF Done
<1>14. Cardinality(Listed) < MaxJobs /\ \A j \in Listed : j.name # n
  BY <1>1, <1>4, BoardHasRoom DEF Listed, Entry
<1>15. Board!Schedule(id, n, rep)
  BY <1>0, <1>2, <1>9, <1>10, <1>11, <1>12, <1>13, <1>14
     DEF Board!Schedule, Board!Cardinality, Cardinality
<1> QED BY <1>3, <1>15 DEF BoardMoves, Board!Moves

\* os_scheduler_cancel takes a job off the board.
LEMMA BoardCancel ==
    ASSUME BoardInv, ~Broken', NEW n \in Names, Cancel(n)
    PROVE  BoardMoves
<1>1. PICK s \in Slots :
        /\ Occupied(s) /\ jobs[s].name = n
        /\ timer' = IF jobs[s].timer = 0 THEN timer
                    ELSE [timer EXCEPT ![jobs[s].timer] = Stopped(jobs[s].timer)]
        /\ jobs' = [jobs EXCEPT ![s] = Cleared]
        /\ stale' = (stale \/ Referenced(s))
        /\ UNCHANGED <<up, queue, worker, nextId, late>>
  BY DEF Cancel, IsJob
<1>2. ~Broken /\ ~Referenced(s) /\ Broken' = Broken
  BY <1>1 DEF Broken
<1> DEFINE i == jobs[s].id
<1>3. i \in Ids /\ i # 0 /\ i = jobs[s].timer
  BY <1>1, <1>2, SlotFacts DEF BoardInv
<1>4. jobs'[s] = Cleared /\ \A t \in Slots : t # s => jobs'[t] = jobs[t]
  BY <1>1 DEF BoardInv, IInv, TypeOK
<1>5. Cleared.running = FALSE /\ Cleared.completed = FALSE /\ Cleared.timer = 0
  BY DEF Cleared
<1>6. timer[i] \in {"armed", "dormant"}
  BY <1>3 DEF BoardInv, IInv, TimersInv
<1>7. timer' = [timer EXCEPT ![i] = IF timer[i] = "armed" THEN "doomed" ELSE "none"]
  BY <1>1, <1>3 DEF Stopped
<1>8. \A t \in Slots : t # s => jobs[t].id # i
  BY <1>2, <1>3, SlotFacts DEF BoardInv
<1> HIDE DEF i
<1>9. Waiting' = Waiting \ {i} /\ Winding' = Winding \cup (Waiting \cap {i})
  BY <1>3, <1>6, <1>7 DEF Waiting, Winding, BoardInv, IInv, TypeOK
<1>10. /\ \A t \in Slots : t # s => (Occupied(t)' <=> Occupied(t)) /\ Entry(t)' = Entry(t)
                                    /\ Entry(t) # Entry(s)
       /\ ~Occupied(s)' /\ Entry(s) \in Listed /\ Entry(s).name = n /\ Entry(s).id = i
  BY <1>1, <1>4, <1>5, <1>8 DEF Occupied, Entry, Listed, i
<1>11. Listed' = Listed \ {Entry(s)}
  BY <1>10 DEF Listed
<1>12. Done' = Done \ {i}
  BY <1>4, <1>5, <1>8 DEF Done, i
<1>13. \A k \in 1 .. Len(queue) : queue[k] \in Slots /\ queue[k] # s
  BY <1>2, DueIs DEF BoardInv, Referenced
<1>14. Due' = Due
  BY <1>1, <1>4, <1>13 DEF Due
<1>15. ~Board!InLine(i)
  BY <1>8, <1>13, DueIs DEF BoardInv, Board!InLine
<1>16. i # worker.id
  <2>1. CASE worker.slot = 0
    BY <1>3, <2>1 DEF BoardInv, HeldInv
  <2>2. CASE worker.slot # 0
    <3>1. worker.slot \in Slots /\ worker.slot # s
      BY <1>2, <2>2, SchedulerAssumption DEF BoardInv, IInv, TypeOK, Slots, Referenced
    <3> QED BY <1>2, <1>8, <2>2, <3>1 DEF BoardInv, HeldInv
  <2> QED BY <2>1, <2>2
<1>17. {j.id : j \in {Entry(s)}} = {i}
  BY <1>10
<1>18. Board!Leave({Entry(s)})
  BY <1>1, <1>2, <1>9, <1>11, <1>12, <1>14, <1>15, <1>16, <1>17 DEF Board!Leave
<1> QED BY <1>1, <1>10, <1>18 DEF BoardMoves, Board!Moves, Board!Cancel

\* os_scheduler_deinit takes all of them off.
LEMMA BoardDeinit ==
    ASSUME BoardInv, ~Broken', DeinitJobs
    PROVE  BoardMoves
<1>1. /\ timer' = [i \in Ids |-> IF \E s \in Slots : jobs[s].timer = i THEN Stopped(i) ELSE timer[i]]
      /\ stale' = (stale \/ \E s \in Slots : Referenced(s))
      /\ UNCHANGED <<queue, worker, nextId, late>> /\ up' = "stopping"
      /\ \A s \in Slots : jobs'[s] = Cleared
  BY DEF DeinitJobs, ClearsJobs
<1>2. ~Broken /\ Broken' = Broken /\ late = {} /\ \A s \in Slots : ~Referenced(s)
  BY <1>1 DEF Broken
<1>3. \A s \in Slots : ~Occupied(s)' /\ ~jobs'[s].completed
  BY <1>1 DEF Occupied, Cleared
<1>4. queue = <<>> /\ worker.slot = 0 /\ worker.id = 0
  <2>1. worker.slot = 0
    BY <1>2, SchedulerAssumption DEF BoardInv, IInv, TypeOK, Slots, Referenced
  <2>2. \A k \in 1 .. Len(queue) : FALSE
    BY <1>2, DueIs DEF BoardInv, Referenced
  <2>3. queue = <<>>
    BY <2>2 DEF BoardInv, IInv, TypeOK
  <2> QED BY <2>1, <2>3 DEF BoardInv, HeldInv
<1> DEFINE ids == {j.id : j \in Listed}
<1>5. \A i : i \in ids <=> i # 0 /\ \E s \in Slots : jobs[s].id = i
  <2>0. \A s \in Slots : Entry(s).id = jobs[s].id
    BY DEF Entry
  <2>1. \A i : i \in ids <=> \E s \in Slots : Occupied(s) /\ jobs[s].id = i
    BY <2>0 DEF Listed
  <2> QED BY <1>2, <2>1, SlotFacts DEF BoardInv
<1> HIDE DEF ids
<1>6. \A i \in Ids : i \in ids <=> \E s \in Slots : jobs[s].timer = i
  BY <1>2, <1>5, SlotFacts DEF BoardInv, Ids
<1>7. \A i \in Ids : /\ i \in ids => timer[i] \in {"armed", "dormant"}
                     /\ timer[i] = "armed" => i \in ids
  BY <1>2, <1>6 DEF BoardInv, IInv, TimersInv, Ids
<1>8. \A i \in Ids : timer'[i] = IF i \in ids THEN IF timer[i] = "armed" THEN "doomed" ELSE "none"
                                 ELSE timer[i]
  BY <1>1, <1>6 DEF Stopped
<1>9. Waiting' = Waiting \ ids /\ Winding' = Winding \cup (Waiting \cap ids)
  BY <1>7, <1>8 DEF Waiting, Winding
<1>10. Listed' = Listed \ Listed
  BY <1>3 DEF Listed
<1>11. Done' = Done \ ids
  <2>1. Done' = {}
    BY <1>3 DEF Done
  <2>2. ASSUME NEW s \in Slots, jobs[s].completed PROVE jobs[s].id \in ids
    BY <1>2, <1>5, <2>2, SlotFacts DEF BoardInv
  <2> QED BY <2>1, <2>2 DEF Done
<1>12. Due' = Due /\ \A i : ~Board!InLine(i)
  BY <1>1, <1>4, DueIs DEF BoardInv, Due, Board!InLine
<1>13. \A i \in ids : i # worker.id
  BY <1>4, <1>5
<1>14. Board!Leave(Listed)
  BY <1>1, <1>2, <1>9, <1>10, <1>11, <1>12, <1>13 DEF Board!Leave, ids
<1> QED BY <1>1, <1>14 DEF BoardMoves, Board!Moves, Board!Shutdown

\* A worker that runs os_scheduler_deinit holds the pointer to a slot it clears.
LEMMA WorkerHolds ==
    ASSUME BoardInv, WorkerDeinits
    PROVE  stale' /\ \E s \in Slots : Referenced(s)
<1>1. worker.slot \in Slots
  BY SchedulerAssumption DEF WorkerDeinits, BoardInv, HeldInv, IInv, TypeOK, Slots
<1>2. Referenced(worker.slot)
  BY DEF Referenced
<1>3. stale' = (stale \/ \E s \in Slots : Referenced(s))
  BY DEF WorkerDeinits, ClearsJobs
<1> QED BY <1>1, <1>2, <1>3

\* A panic empties the board, which is shut.
LEMMA BoardPanic ==
    ASSUME Panic
    PROVE  BoardMoves
<1>1. up # "up" /\ up' # "up" /\ worker'.id = 0 /\ ~Broken' /\ nextId' = 0
  BY DEF Panic, Idle, Broken
<1>2. Listed' = {} /\ Done' = {} /\ Waiting' = {} /\ Winding' = {} /\ Due' = <<>>
  BY DEF Panic, Listed, Done, Waiting, Winding, Due, Occupied, Cleared
<1>3. 1 .. nextId' = {} /\ Broken' = FALSE
  BY <1>1 DEF Broken
<1>4. Board!Restart
  BY <1>1, <1>2, <1>3 DEF Board!Restart
<1> QED BY <1>4 DEF BoardMoves, Board!Moves

-----------------------------------------------------------------------------
(* The board: the timer task and the worker *)

\* timer_callback posts the pointer of the slot whose job the timer was made for.
LEMMA BoardExpire ==
    ASSUME BoardInv, ~Broken', NEW i \in Ids, TimerCallback(i)
    PROVE  BoardMoves
<1> DEFINE after == IF i \in repeats THEN AutoReload ELSE OneShot
<1>1. /\ timer[i] \in {"armed", "doomed"}
      /\ timer' = [timer EXCEPT ![i] = after[timer[i]]]
      /\ UNCHANGED <<up, jobs, worker, nextId, repeats, late>>
  BY DEF TimerCallback, Expires
<1>2. \/ ~HasQueue /\ UNCHANGED <<queue, stale>>
      \/ /\ HasQueue
         /\ queue' = IF Len(queue) < MaxJobs THEN Append(queue, tslot[i]) ELSE queue
         /\ stale' = (stale \/ timer[i] = "doomed")
  BY DEF TimerCallback, Expires
<1>3. ~Broken /\ ~stale' /\ late = {} /\ Broken' = Broken
  <2>1. ~stale' /\ late = {}
    BY <1>1 DEF Broken
  <2>2. ~stale
    BY <1>2, <2>1
  <2> QED BY <1>1, <2>1, <2>2 DEF Broken
<1>4. after[timer[i]] = IF timer[i] = "armed" THEN IF i \in repeats THEN "armed" ELSE "dormant"
                        ELSE IF i \in repeats THEN "doomed" ELSE "none"
  BY <1>1 DEF AutoReload, OneShot
<1> HIDE DEF after
<1>5. UNCHANGED <<Listed, Done>>
  BY <1>1 DEF Listed, Entry, Occupied, Done
<1>6. timer[i] = "armed" => tslot[i] \in Slots /\ jobs[tslot[i]].timer = i /\ up = "up"
  BY <1>3 DEF BoardInv, IInv, TimersInv, JobsInv, Ids
<1>7. CASE ~HasQueue
  <2>1. timer[i] = "doomed" /\ queue' = queue
    BY <1>1, <1>2, <1>6, <1>7 DEF HasQueue
  <2>2. Due' = Due /\ Waiting' = Waiting
    BY <1>1, <1>4, <2>1 DEF Due, Waiting, BoardInv, IInv, TypeOK
  <2>3. CASE i \in repeats
    <3>1. Winding' = Winding
      BY <1>1, <1>4, <2>1, <2>3 DEF Winding, BoardInv, IInv, TypeOK
    <3> QED BY <1>1, <1>3, <1>5, <2>2, <3>1, Unseen
  <2>4. CASE i \notin repeats
    <3>1. Winding' = Winding \ {i} /\ i \in Winding
      BY <1>1, <1>4, <2>1, <2>4 DEF Winding, BoardInv, IInv, TypeOK
    <3>2. Board!ClockStops(i)
      BY <1>1, <1>3, <1>5, <2>2, <3>1 DEF Board!ClockStops
    <3> QED BY <3>1, <3>2 DEF BoardMoves, Board!Moves
  <2> QED BY <2>3, <2>4
<1>8. CASE HasQueue
  <2> DEFINE s == tslot[i]
             j == Entry(s)
  <2>1. timer[i] = "armed"
    BY <1>1, <1>2, <1>3, <1>8
  <2>2. s \in Slots /\ jobs[s].timer = i /\ jobs[s].id = i /\ Occupied(s)
    BY <1>3, <1>6, <2>1, SlotFacts DEF BoardInv, Ids
  <2>3. j \in Listed /\ j.id = i /\ (j.repeat <=> i \in repeats)
    BY <2>2 DEF Listed, Entry, BoardInv, IInv, JobsInv, Ids
  <2> HIDE DEF j
  <2>4. i \in Waiting /\ Winding' = Winding
    BY <1>1, <1>4, <2>1 DEF Waiting, Winding, BoardInv, IInv, TypeOK
  <2>5. Waiting' = IF j.repeat THEN Waiting ELSE Waiting \ {i}
    BY <1>1, <1>4, <2>1, <2>3 DEF Waiting, BoardInv, IInv, TypeOK
  <2>6. /\ Due \in Seq(Id0) /\ Len(Due) = Len(queue) /\ Len(queue) \in Nat
        /\ \A k \in 1 .. Len(queue) : queue[k] \in Slots /\ Due[k] = jobs[queue[k]].id
    BY DueIs DEF BoardInv
  <2>7. CASE Len(queue) < MaxJobs
    <3>1. /\ queue' = Append(queue, s) /\ Len(queue') = Len(queue) + 1 /\ queue'[Len(queue) + 1] = s
          /\ \A k \in 1 .. Len(queue) : queue'[k] = queue[k]
      <4>1. queue' = Append(queue, s)
        BY <1>2, <1>8, <2>7
      <4>2. queue \in Seq(Slots)
        BY DEF BoardInv, IInv, TypeOK
      <4> HIDE DEF s
      <4> QED BY <2>2, <4>1, <4>2, AppendProperties
    <3>2. Due' = [k \in 1 .. Len(queue) + 1 |-> jobs[queue'[k]].id]
      BY <1>1, <3>1 DEF Due
    <3> DEFINE d == Append(Due, i)
    <3>3. /\ d \in Seq(Id0) /\ Len(d) = Len(Due) + 1 /\ d[Len(Due) + 1] = i
          /\ \A k \in 1 .. Len(Due) : d[k] = Due[k]
      BY <2>2, <2>6, AppendProperties, SlotFacts, <1>3 DEF BoardInv
    <3> HIDE DEF d
    <3>4. \A k \in 1 .. Len(queue) + 1 : d[k] = jobs[queue'[k]].id
      BY <2>2, <2>6, <3>1, <3>3
    <3>5. d = Due'
      BY <2>6, <3>2, <3>3, <3>4
    <3>6. Board!Expire(j)
      BY <1>1, <1>3, <1>5, <2>3, <2>4, <2>5, <2>6, <2>7, <3>5 DEF Board!Expire, d
    <3> QED BY <2>3, <3>6 DEF BoardMoves, Board!Moves
  <2>8. CASE ~(Len(queue) < MaxJobs)
    <3>1. Len(queue) = MaxJobs /\ queue' = queue
      BY <1>2, <1>8, <2>8, SchedulerAssumption DEF BoardInv, IInv, TypeOK
    <3>2. Due' = Due
      BY <1>1, <3>1 DEF Due
    <3>3. PICK t \in Slots : jobs[t].repeat
      BY <1>3, <2>1, <2>8, OneShotsFit DEF BoardInv
    <3>4. Occupied(t)
      BY <1>3, <3>3, SlotFacts DEF BoardInv, Cleared
    <3>5. Entry(t) \in Listed /\ Entry(t).repeat
      BY <3>3, <3>4 DEF Listed, Entry
    <3>6. Board!Expire(j)
      BY <1>1, <1>3, <1>5, <2>3, <2>4, <2>5, <2>6, <3>1, <3>2, <3>5 DEF Board!Expire
    <3> QED BY <2>3, <3>6 DEF BoardMoves, Board!Moves
  <2> QED BY <2>7, <2>8
<1> QED BY <1>7, <1>8

\* The timer task executes stop and delete.
LEMMA BoardDeleted ==
    ASSUME BoardInv, ~Broken, NEW i \in Ids, TimerDeleted(i)
    PROVE  BoardMoves
<1>1. /\ timer[i] = "doomed" /\ timer' = [timer EXCEPT ![i] = "none"]
      /\ UNCHANGED <<up, jobs, queue, worker, nextId, stale, late>>
  BY DEF TimerDeleted
<1>2. UNCHANGED <<Listed, Done, Due, Broken>>
  BY <1>1 DEF Listed, Entry, Occupied, Done, Due, Broken
<1>3. Waiting' = Waiting /\ Winding' = Winding \ {i} /\ i \in Winding
  BY <1>1 DEF Waiting, Winding, BoardInv, IInv, TypeOK
<1>4. Board!ClockStops(i)
  BY <1>1, <1>2, <1>3 DEF Board!ClockStops
<1> QED BY <1>3, <1>4 DEF BoardMoves, Board!Moves

\* worker_task receives a pointer: the first in the line is run.
LEMMA BoardRun ==
    ASSUME BoardInv, ~Broken, WorkerStarts
    PROVE  BoardMoves
<1> DEFINE s == Head(queue)
<1>1. /\ worker.slot = 0 /\ queue # <<>> /\ worker' = [slot |-> s, id |-> jobs[s].id]
      /\ queue' = Tail(queue) /\ UNCHANGED <<up, jobs, timer, nextId, stale, late>>
  BY DEF WorkerStarts
<1>2. /\ Len(queue) \in Nat \ {0} /\ s = queue[1] /\ Len(queue') = Len(queue) - 1
      /\ \A k \in 1 .. Len(queue') : queue'[k] = queue[k + 1]
  BY <1>1 DEF BoardInv, IInv, TypeOK
<1>3. UNCHANGED <<Listed, Done, Waiting, Winding, Broken>>
  BY <1>1 DEF Listed, Entry, Occupied, Done, Waiting, Winding, Broken
<1>4. /\ Due \in Seq(Id0) /\ Len(Due) = Len(queue)
      /\ \A k \in 1 .. Len(queue) : Due[k] = jobs[queue[k]].id
  BY DueIs DEF BoardInv
<1>5. Due # <<>> /\ Head(Due) = jobs[s].id
  BY <1>2, <1>4
<1> HIDE DEF s
<1>6. Due' = Tail(Due)
  <2> DEFINE d == Tail(Due)
  <2>1. d \in Seq(Id0) /\ Len(d) = Len(queue) - 1 /\ \A k \in 1 .. Len(d) : d[k] = Due[k + 1]
    BY <1>2, <1>4, <1>5, HeadTailProperties
  <2>2. Due' = [k \in 1 .. Len(queue) - 1 |-> jobs[queue[k + 1]].id]
    BY <1>1, <1>2 DEF Due
  <2> HIDE DEF d
  <2>3. \A k \in 1 .. Len(queue) - 1 : d[k] = jobs[queue[k + 1]].id
    BY <1>2, <1>4, <2>1
  <2>4. d = Due'
    BY <1>2, <2>1, <2>2, <2>3
  <2> QED BY <2>4 DEF d
<1>7. worker.id = 0 /\ worker'.id = jobs[s].id
  BY <1>1 DEF BoardInv, HeldInv
<1>8. Board!Run
  BY <1>1, <1>3, <1>5, <1>6, <1>7 DEF Board!Run
<1> QED BY <1>8 DEF BoardMoves, Board!Moves

\* worker_task has run a command.
LEMMA BoardFinish ==
    ASSUME BoardInv, ~Broken, WorkerFinishes
    PROVE  BoardMoves
<1> DEFINE w == worker.slot
           end == [jobs[w] EXCEPT !.completed = TRUE, !.running = FALSE]
           j == Entry(w)
<1>1. /\ w # 0 /\ worker' = Idle
      /\ jobs' = IF jobs[w].repeat THEN jobs ELSE [jobs EXCEPT ![w] = end]
      /\ UNCHANGED <<up, timer, queue, nextId, stale, late>>
  BY DEF WorkerFinishes
<1>2. w \in Slots /\ jobs[w] \in Job
  BY <1>1, SchedulerAssumption DEF BoardInv, IInv, TypeOK, Slots
<1>3. worker.id = jobs[w].id /\ jobs[w].id # 0 /\ Occupied(w)
  BY <1>1, <1>2, SlotFacts DEF BoardInv, HeldInv, IInv, Sound
<1>4. /\ end.id = jobs[w].id /\ end.timer = jobs[w].timer /\ end.name = jobs[w].name
      /\ end.repeat = jobs[w].repeat /\ end.completed = TRUE
  BY <1>2 DEF Job
<1> HIDE DEF end
<1>5. /\ \A t \in Slots : t # w => jobs'[t] = jobs[t]
      /\ jobs[w].repeat => jobs' = jobs
      /\ ~jobs[w].repeat => jobs'[w] = end
  BY <1>1, <1>2 DEF BoardInv, IInv, TypeOK
<1> HIDE DEF w
<1>6. \A t \in Slots : Entry(t)' = Entry(t) /\ jobs'[t].id = jobs[t].id /\ jobs'[t].timer = jobs[t].timer
  BY <1>4, <1>5 DEF Entry
<1>7. \A t \in Slots : Occupied(t)' <=> Occupied(t)
  <2> SUFFICES ASSUME NEW t \in Slots PROVE Occupied(t)' <=> Occupied(t)
    OBVIOUS
  <2>1. CASE t = w
    <3>1. jobs[w].timer # 0
      BY <1>2, <1>3, SlotFacts DEF BoardInv
    <3>2. jobs'[w].timer # 0
      BY <1>2, <1>6, <3>1
    <3> QED BY <1>3, <2>1, <3>2 DEF Occupied
  <2>2. CASE t # w
    BY <1>5, <2>2 DEF Occupied
  <2> QED BY <2>1, <2>2
<1>8. Listed' = Listed /\ j \in Listed
  BY <1>2, <1>3, <1>6, <1>7 DEF Listed
<1>9. j.id = worker.id /\ j.repeat = jobs[w].repeat /\ j.id = jobs[w].id
  BY <1>3 DEF Entry
<1>10. Due' = Due
  <2>1. \A k \in 1 .. Len(queue) : queue[k] \in Slots
    BY DueIs DEF BoardInv
  <2> QED BY <1>1, <1>6, <2>1 DEF Due
<1>11. Done' = IF jobs[w].repeat THEN Done ELSE Done \cup {jobs[w].id}
  <2>1. CASE jobs[w].repeat
    BY <1>5, <2>1 DEF Done
  <2>2. CASE ~jobs[w].repeat
    BY <1>2, <1>4, <1>5, <2>2 DEF Done
  <2> QED BY <2>1, <2>2
<1>12. worker'.id = 0 /\ UNCHANGED <<Waiting, Winding, Broken>>
  BY <1>1 DEF Idle, Waiting, Winding, Broken
<1> HIDE DEF j
<1>13. Board!Finish(j)
  BY <1>1, <1>8, <1>9, <1>10, <1>11, <1>12 DEF Board!Finish
<1> QED BY <1>8, <1>13 DEF BoardMoves, Board!Moves

\* HeldInv is kept: a slot is cleared under the worker's pointer only if stale is set.
LEMMA HeldStep ==
    ASSUME BoardInv, IInv', [Next]_vars
    PROVE  HeldInv'
<1>1. CASE SchedulerInit \/ DeinitTeardown \/ WorkerFinishes \/ WorkerDeinits \/ Panic
  <2>1. worker' = Idle
    BY <1>1 DEF SchedulerInit, DeinitTeardown, WorkerFinishes, WorkerDeinits, Panic
  <2> QED BY <2>1 DEF HeldInv, Idle
<1>2. CASE WorkerStarts
  <2>1. Head(queue) \in Slots
    BY <1>2 DEF WorkerStarts, BoardInv, IInv, TypeOK
  <2> QED BY <1>2, <2>1 DEF WorkerStarts, HeldInv, Slots
<1>3. ASSUME UNCHANGED worker, Broken => Broken',
             \A s \in Slots : ~Broken' /\ worker.slot = s => jobs'[s].id = jobs[s].id
      PROVE  HeldInv'
  <2>1. worker.slot # 0 => worker.slot \in Slots
    BY SchedulerAssumption DEF BoardInv, IInv, TypeOK, Slots
  <2> QED BY <1>3, <2>1 DEF BoardInv, HeldInv
<1>4. CASE CmdAt \/ CmdEvery
  <2>1. PICK n \in Names, rep \in BOOLEAN : Schedule(n, rep)
    BY <1>4 DEF CmdAt, CmdEvery
  <2>2. PICK s \in Slots : ~Occupied(s) /\ \A t \in Slots : t # s => jobs'[t] = jobs[t]
    BY <2>1 DEF Schedule, IsFreeSlot, BoardInv, IInv, TypeOK
  <2>3. UNCHANGED worker /\ (Broken => Broken')
    BY <2>1 DEF Schedule, Broken
  <2>4. ~Broken /\ worker.slot # 0 => worker.slot # s
    BY <2>2 DEF BoardInv, IInv, Sound, Occupied
  <2> QED BY <1>3, <2>2, <2>3, <2>4 DEF Slots
<1>5. CASE CmdKilljob
  <2>1. PICK n \in Names, s \in Slots :
          /\ jobs' = [jobs EXCEPT ![s] = Cleared] /\ stale' = (stale \/ Referenced(s))
          /\ UNCHANGED <<worker, late>>
    BY <1>5 DEF CmdKilljob, Cancel
  <2>2. (Broken => Broken') /\ (worker.slot = s => Broken')
    BY <2>1 DEF Broken, Referenced
  <2> QED BY <1>3, <2>1, <2>2 DEF BoardInv, IInv, TypeOK
<1>6. CASE DeinitJobs
  <2>1. stale' = (stale \/ \E s \in Slots : Referenced(s)) /\ UNCHANGED <<worker, late>>
    BY <1>6 DEF DeinitJobs, ClearsJobs
  <2>2. (Broken => Broken') /\ \A s \in Slots : worker.slot = s => Broken'
    BY <2>1 DEF Broken, Referenced
  <2> QED BY <1>3, <2>1, <2>2
<1>7. CASE \/ \E i \in Ids : TimerCallback(i) \/ TimerDeleted(i)
           \/ DeinitEnds \/ UNCHANGED vars
  <2>1. UNCHANGED <<jobs, worker, late>>
    BY <1>7 DEF TimerCallback, Expires, TimerDeleted, DeinitEnds, vars
  <2>2. stale => stale'
    <3>1. ASSUME NEW i \in Ids, TimerCallback(i) PROVE stale => stale'
      BY <3>1 DEF TimerCallback, Expires
    <3>2. ASSUME NEW i \in Ids, TimerDeleted(i) PROVE stale => stale'
      BY <3>2 DEF TimerDeleted
    <3> QED BY <1>7, <3>1, <3>2 DEF DeinitEnds, vars
  <2>3. Broken => Broken'
    BY <2>1, <2>2 DEF Broken
  <2> QED BY <1>3, <2>1, <2>3
<1> QED BY <1>1, <1>2, <1>4, <1>5, <1>6, <1>7 DEF Next

\* The promise breaks only when a slot is cleared under a pointer, a timer that is being
\* stopped goes off, or a job is accepted inside os_scheduler_deinit; and stays broken.
LEMMA Breaks ==
    ASSUME BoardInv, Next, ~Panic
    PROVE  /\ Broken => Broken'
           /\ Broken' => \/ Broken
                         \/ \E s \in Slots : Referenced(s)
                         \/ Winding # {}
                         \/ up # "up"
<1>1. CASE CmdAt \/ CmdEvery
  <2>1. PICK n \in Names, rep \in BOOLEAN : Schedule(n, rep)
    BY <1>1 DEF CmdAt, CmdEvery
  <2>2. stale' = stale /\ late' = IF up = "up" THEN late ELSE late \cup {nextId + 1}
    BY <2>1 DEF Schedule
  <2> QED BY <2>2 DEF Broken
<1>2. CASE CmdKilljob
  <2>1. PICK s \in Slots : stale' = (stale \/ Referenced(s)) /\ late' = late
    BY <1>2 DEF CmdKilljob, Cancel
  <2> QED BY <2>1 DEF Broken
<1>3. CASE DeinitJobs \/ WorkerDeinits
  <2>1. stale' = (stale \/ \E s \in Slots : Referenced(s)) /\ late' = late
    BY <1>3 DEF DeinitJobs, WorkerDeinits, ClearsJobs
  <2> QED BY <2>1 DEF Broken
<1>4. CASE \E i \in Ids : TimerCallback(i)
  <2>1. PICK i \in Ids : late' = late /\ (stale' = stale \/ stale' = (stale \/ timer[i] = "doomed"))
    BY <1>4 DEF TimerCallback, Expires
  <2>2. timer[i] = "doomed" => Winding # {}
    BY DEF Winding
  <2>3. (stale => stale') /\ (stale' => stale \/ timer[i] = "doomed")
    <3>1. CASE stale' = stale
      BY <3>1
    <3>2. CASE stale' = (stale \/ timer[i] = "doomed")
      BY <3>2, Zenon
    <3> QED BY <2>1, <3>1, <3>2
  <2> QED BY <2>1, <2>2, <2>3 DEF Broken
<1>5. CASE \/ SchedulerInit \/ DeinitTeardown \/ DeinitEnds \/ WorkerStarts \/ WorkerFinishes
           \/ \E i \in Ids : TimerDeleted(i)
  <2>1. UNCHANGED <<stale, late>>
    BY <1>5 DEF SchedulerInit, DeinitTeardown, DeinitEnds, WorkerStarts, WorkerFinishes, TimerDeleted
  <2> QED BY <2>1 DEF Broken
<1> QED BY <1>1, <1>2, <1>3, <1>4, <1>5 DEF Next

\* Every step is a step of the promise.
LEMMA BoardStep ==
    ASSUME BoardInv, [Next]_vars
    PROVE  BoardMoves
<1>1. CASE UNCHANGED vars
  <2>1. UNCHANGED <<Listed, Waiting, Winding, Due, Done, Broken>>
    BY <1>1 DEF vars, Listed, Entry, Occupied, Waiting, Winding, Due, Done, Broken
  <2> QED BY <1>1, <2>1, Unseen DEF vars
<1>2. CASE Panic
  BY <1>2, BoardPanic
<1>3. CASE Next /\ ~Panic /\ Broken'
  BY <1>3, Breaks, Overtakes DEF BoardInv
<1>4. CASE Next /\ ~Panic /\ ~Broken'
  <2>1. ~Broken
    BY <1>4, Breaks
  <2>2. CASE SchedulerInit \/ DeinitTeardown \/ DeinitEnds
    BY <2>1, <2>2, BoardInit
  <2>3. CASE CmdAt \/ CmdEvery
    BY <1>4, <2>3, BoardSchedule DEF CmdAt, CmdEvery
  <2>4. CASE CmdKilljob
    BY <1>4, <2>4, BoardCancel DEF CmdKilljob
  <2>5. CASE DeinitJobs
    BY <1>4, <2>5, BoardDeinit
  <2>6. CASE \E i \in Ids : TimerCallback(i) \/ TimerDeleted(i)
    BY <1>4, <2>1, <2>6, BoardExpire, BoardDeleted
  <2>7. CASE WorkerStarts
    BY <2>1, <2>7, BoardRun
  <2>8. CASE WorkerFinishes
    BY <2>1, <2>8, BoardFinish
  <2>9. ~WorkerDeinits
    BY <1>4, WorkerHolds DEF Broken
  <2> QED BY <1>4, <2>2, <2>3, <2>4, <2>5, <2>6, <2>7, <2>8, <2>9 DEF Next
<1> QED BY <1>1, <1>2, <1>3, <1>4

\* For any number of slots, names and jobs: the table, the timers, the queue of pointers
\* and the worker of os_scheduler.c implement the board of JobBoard.
THEOREM SchedulerIsBoard == Spec => ImplementsBoard
<1>1. Init => HeldInv /\ Board!Start
  <2> SUFFICES ASSUME Init PROVE HeldInv /\ Board!Start
    OBVIOUS
  <2>1. \A s \in Slots : jobs[s] = Cleared /\ ~Occupied(s) /\ ~jobs[s].completed
    BY DEF Init, Occupied, Cleared
  <2>2. Listed = {} /\ Done = {} /\ Waiting = {} /\ Winding = {}
    BY <2>1 DEF Init, Listed, Done, Waiting, Winding
  <2>3. Due = <<>> /\ 1 .. nextId = {} /\ worker.id = 0 /\ worker.slot = 0 /\ Broken = FALSE
    BY DEF Init, Due, Idle, Broken
  <2>4. (up = "up") = FALSE
    BY DEF Init
  <2> QED BY <2>2, <2>3, <2>4 DEF Board!Start, HeldInv
<1>2. IInv /\ HeldInv /\ IInv' /\ [Next]_vars => HeldInv' /\ [Board!Moves]_(Board!boardVars)
  BY HeldStep, BoardStep DEF BoardInv, BoardMoves
<1> QED BY <1>1, <1>2, Inductive, PTL DEF Spec, ImplementsBoard, Board!BoardSpec
=============================================================================

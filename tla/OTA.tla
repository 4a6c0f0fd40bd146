-------------------------------- MODULE OTA --------------------------------
(***************************************************************************)
(* The firmware update service of os_ota.c: callers that start and abort   *)
(* an update, the background task that downloads and applies it, and the   *)
(* shared state s_state, s_ota_task and s_abort_requested.                 *)
(*                                                                         *)
(* s_mutex protects single accesses, not whole operations: os_ota_start    *)
(* checks the state in one critical section and creates the task after it, *)
(* the task sets the state in later ones, and os_ota_abort reads           *)
(* s_ota_task and deletes that task without the mutex.  Each critical      *)
(* section, and each call between two of them, is one action.              *)
(*                                                                         *)
(* esp_https_ota_* is external: begin and perform may fail or take any     *)
(* number of rounds.  Left out: the configuration, the progress figures,   *)
(* the error text and the callback, which decide nothing.                  *)
(*                                                                         *)
(* Names that other services have too begin with ota or Ota: ServiceProofs *)
(* extends this module together with Mqtt and Timer.                       *)
(***************************************************************************)
EXTENDS Integers

CONSTANTS
    OtaCallers, \* tasks that call os_ota_start and os_ota_abort
    MaxTasks    \* bound: OTA tasks created between two restarts

ASSUME OtaAssumption == MaxTasks \in Nat \ {0} /\ 0 \notin OtaCallers

Tasks == 1 .. MaxTasks

OtaStates == {"IDLE", "DOWNLOADING", "VERIFYING", "APPLYING", "REBOOTING", "ERROR"}

\* Where an OTA task is.  "toX" is the update_state(X) it is about to execute.
TaskPcs == {"none", "new", "toDOWNLOADING", "begin", "loop", "perform",
            "toVERIFYING", "finish", "toAPPLYING", "toREBOOTING", "restart",
            "toIDLE", "toERROR", "cleanup"}

\* Where a caller is: "create" is between the critical section of os_ota_start
\* and xTaskCreate; the others are the steps of os_ota_abort; "deleted" is a
\* caller that ran vTaskDelete(NULL).
OtaCallerPcs == {"idle", "create", "request", "poll", "force", "clear", "reset", "deleted"}

VARIABLES
    otaState,   \* s_state
    otaTask,    \* s_ota_task, 0 for NULL
    abortReq,   \* s_abort_requested
    mutexLost,  \* s_mutex is held by a deleted task
    tpc,        \* program counter of each OTA task
    cpc,        \* program counter of each caller
    overlap     \* history: an OTA task was created while another one existed, or
                \* while an abort had yet to clear the handle or reset the state

otaVars == <<otaState, otaTask, abortReq, mutexLost, tpc, cpc, overlap>>

OtaTypeOK ==
    /\ otaState \in OtaStates
    /\ otaTask \in Tasks \cup {0}
    /\ abortReq \in BOOLEAN
    /\ mutexLost \in BOOLEAN
    /\ tpc \in [Tasks -> TaskPcs]
    /\ cpc \in [OtaCallers -> OtaCallerPcs]
    /\ overlap \in BOOLEAN

OtaInit ==
    /\ otaState = "IDLE"
    /\ otaTask = 0
    /\ abortReq = FALSE
    /\ mutexLost = FALSE
    /\ tpc = [t \in Tasks |-> "none"]
    /\ cpc = [c \in OtaCallers |-> "idle"]
    /\ overlap = FALSE

Lives(t) == tpc[t] # "none"

\* os_ota_is_in_progress
InProgress == otaState \notin {"IDLE", "ERROR"}

-----------------------------------------------------------------------------
\* os_ota_start: the state check and the configuration, under the mutex.
StartAccepted(c) ==
    /\ cpc[c] = "idle" /\ ~mutexLost
    /\ ~InProgress
    /\ abortReq' = FALSE
    /\ cpc' = [cpc EXCEPT ![c] = "create"]
    /\ UNCHANGED <<otaState, otaTask, mutexLost, tpc, overlap>>

\* os_ota_start: xTaskCreate stores the handle in s_ota_task before the task runs.
StartCreates(c, t) ==
    /\ cpc[c] = "create"
    /\ ~Lives(t)
    /\ tpc' = [tpc EXCEPT ![t] = "new"]
    /\ otaTask' = t
    /\ overlap' = \/ overlap
                  \/ \E u \in Tasks : Lives(u)
                  \/ \E d \in OtaCallers : cpc[d] \in {"clear", "reset"}
    /\ cpc' = [cpc EXCEPT ![c] = "idle"]
    /\ UNCHANGED <<otaState, abortReq, mutexLost>>

\* os_ota_start: xTaskCreate fails.
StartFails(c) ==
    /\ cpc[c] = "create"
    /\ cpc' = [cpc EXCEPT ![c] = "idle"]
    /\ UNCHANGED <<otaState, otaTask, abortReq, mutexLost, tpc, overlap>>

\* os_ota_abort: the test of s_ota_task, without the mutex.
AbortEnters(c) ==
    /\ cpc[c] = "idle"
    /\ otaTask # 0
    /\ cpc' = [cpc EXCEPT ![c] = "request"]
    /\ UNCHANGED <<otaState, otaTask, abortReq, mutexLost, tpc, overlap>>

AbortRequests(c) ==
    /\ cpc[c] = "request" /\ ~mutexLost
    /\ abortReq' = TRUE
    /\ cpc' = [cpc EXCEPT ![c] = "poll"]
    /\ UNCHANGED <<otaState, otaTask, mutexLost, tpc, overlap>>

\* One of the 50 polls finds that the task has gone.
AbortSeesStop(c) ==
    /\ cpc[c] = "poll" /\ ~mutexLost
    /\ otaTask = 0
    /\ cpc' = [cpc EXCEPT ![c] = "reset"]
    /\ UNCHANGED <<otaState, otaTask, abortReq, mutexLost, tpc, overlap>>

\* Mutant: the poll loop has no limit.
AbortTimesOut_Never(c) ==
    /\ cpc[c] = "poll" /\ FALSE
    /\ UNCHANGED otaVars

\* The last poll still finds a task.
AbortTimesOut(c) ==
    /\ cpc[c] = "poll" /\ ~mutexLost
    /\ otaTask # 0
    /\ cpc' = [cpc EXCEPT ![c] = "force"]
    /\ UNCHANGED <<otaState, otaTask, abortReq, mutexLost, tpc, overlap>>

\* An OTA task at one of these places executes a critical section of s_mutex next,
\* and may be inside it when it is deleted.
AtMutex(t) ==
    tpc[t] \in {"new", "loop", "cleanup", "toDOWNLOADING", "toVERIFYING", "toAPPLYING",
                "toREBOOTING", "toIDLE", "toERROR"}

\* vTaskDelete(s_ota_task): the handle is read again, without the mutex.  Another
\* abort may have deleted that task already; what vTaskDelete does to freed memory
\* is undefined, but it ends no live task.
AbortForces(c) ==
    /\ cpc[c] = "force"
    /\ otaTask # 0
    /\ tpc' = [tpc EXCEPT ![otaTask] = "none"]
    /\ mutexLost' \in {mutexLost, mutexLost \/ AtMutex(otaTask)}
    /\ cpc' = [cpc EXCEPT ![c] = "clear"]
    /\ UNCHANGED <<otaState, otaTask, abortReq, overlap>>

\* s_ota_task = NULL, also without the mutex.
AbortClears(c) ==
    /\ cpc[c] = "clear"
    /\ otaTask' = 0
    /\ cpc' = [cpc EXCEPT ![c] = "reset"]
    /\ UNCHANGED <<otaState, abortReq, mutexLost, tpc, overlap>>

\* If the task has cleared s_ota_task since the last poll, vTaskDelete(NULL)
\* deletes the caller.
AbortDeletesCaller(c) ==
    /\ cpc[c] = "force"
    /\ otaTask = 0
    /\ cpc' = [cpc EXCEPT ![c] = "deleted"]
    /\ UNCHANGED <<otaState, otaTask, abortReq, mutexLost, tpc, overlap>>

\* Mutant: the state is left as the deleted task set it.
AbortResets_KeepsState(c) ==
    /\ cpc[c] = "reset" /\ ~mutexLost
    /\ abortReq' = FALSE
    /\ cpc' = [cpc EXCEPT ![c] = "idle"]
    /\ UNCHANGED <<otaState, otaTask, mutexLost, tpc, overlap>>

\* The last critical section of os_ota_abort.
AbortResets(c) ==
    /\ cpc[c] = "reset" /\ ~mutexLost
    /\ abortReq' = FALSE
    /\ otaState' = "IDLE"
    /\ cpc' = [cpc EXCEPT ![c] = "idle"]
    /\ UNCHANGED <<otaTask, mutexLost, tpc, overlap>>

-----------------------------------------------------------------------------
TaskGoes(t, p) == tpc' = [tpc EXCEPT ![t] = p]

\* Mutant: DOWNLOADING is not reported before the transfer begins.
TaskChecksAbort_Silent(t) ==
    /\ ~mutexLost
    /\ \/ tpc[t] = "new"  /\ TaskGoes(t, IF abortReq THEN "toIDLE" ELSE "begin")
       \/ tpc[t] = "loop" /\ TaskGoes(t, IF abortReq THEN "toIDLE" ELSE "perform")
    /\ UNCHANGED <<otaState, otaTask, abortReq, mutexLost, cpc, overlap>>

\* ota_task: is_abort_requested, on entry and in each round of the download loop.
TaskChecksAbort(t) ==
    /\ ~mutexLost
    /\ \/ tpc[t] = "new"  /\ TaskGoes(t, IF abortReq THEN "toIDLE" ELSE "toDOWNLOADING")
       \/ tpc[t] = "loop" /\ TaskGoes(t, IF abortReq THEN "toIDLE" ELSE "perform")
    /\ UNCHANGED <<otaState, otaTask, abortReq, mutexLost, cpc, overlap>>

\* update_state(s) and the place in ota_task where it is called.
After == [DOWNLOADING |-> "begin", VERIFYING |-> "finish", APPLYING |-> "toREBOOTING",
          REBOOTING |-> "restart", IDLE |-> "cleanup", ERROR |-> "cleanup"]

At == [DOWNLOADING |-> "toDOWNLOADING", VERIFYING |-> "toVERIFYING",
       APPLYING |-> "toAPPLYING", REBOOTING |-> "toREBOOTING",
       IDLE |-> "toIDLE", ERROR |-> "toERROR"]

\* Mutant: an error is logged but the state is not set.
UpdateState_ErrorKeepsState(t, s) ==
    /\ ~mutexLost
    /\ tpc[t] = At[s]
    /\ otaState' = IF s = "ERROR" THEN otaState ELSE s
    /\ TaskGoes(t, After[s])
    /\ UNCHANGED <<otaTask, abortReq, mutexLost, cpc, overlap>>

UpdateState(t, s) ==
    /\ ~mutexLost
    /\ tpc[t] = At[s]
    /\ otaState' = s
    /\ TaskGoes(t, After[s])
    /\ UNCHANGED <<otaTask, abortReq, mutexLost, cpc, overlap>>

\* ota_task: esp_https_ota_begin, esp_https_ota_perform and esp_https_ota_finish.
TaskDownloads(t) ==
    /\ \/ tpc[t] = "begin"   /\ \E p \in {"loop", "toERROR"} : TaskGoes(t, p)
       \/ tpc[t] = "perform" /\ \E p \in {"loop", "toVERIFYING", "toERROR"} : TaskGoes(t, p)
       \/ tpc[t] = "finish"  /\ \E p \in {"toAPPLYING", "toERROR"} : TaskGoes(t, p)
    /\ UNCHANGED <<otaState, otaTask, abortReq, mutexLost, cpc, overlap>>

\* Mutant: the handle is not cleared.
TaskCleansUp_KeepsHandle(t) ==
    /\ tpc[t] = "cleanup" /\ ~mutexLost
    /\ abortReq' = FALSE
    /\ TaskGoes(t, "none")
    /\ UNCHANGED <<otaState, otaTask, mutexLost, cpc, overlap>>

\* ota_task: the cleanup label; the task then deletes itself.
TaskCleansUp(t) ==
    /\ tpc[t] = "cleanup" /\ ~mutexLost
    /\ abortReq' = FALSE
    /\ otaTask' = 0
    /\ TaskGoes(t, "none")
    /\ UNCHANGED <<otaState, mutexLost, cpc, overlap>>

\* esp_restart: everything in RAM starts again, os_ota_init included.
Restart(t) ==
    /\ tpc[t] = "restart"
    /\ otaState' = "IDLE"
    /\ otaTask' = 0
    /\ abortReq' = FALSE
    /\ mutexLost' = FALSE
    /\ tpc' = [u \in Tasks |-> "none"]
    /\ cpc' = [c \in OtaCallers |-> "idle"]
    /\ overlap' = FALSE

TaskStep(t) ==
    \/ TaskChecksAbort(t)
    \/ \E s \in OtaStates : UpdateState(t, s)
    \/ TaskDownloads(t)
    \/ TaskCleansUp(t)
    \/ Restart(t)

OtaCallerStep(c) ==
    \/ StartFails(c) \/ \E t \in Tasks : StartCreates(c, t)
    \/ AbortRequests(c) \/ AbortSeesStop(c) \/ AbortTimesOut(c)
    \/ AbortForces(c) \/ AbortClears(c) \/ AbortDeletesCaller(c) \/ AbortResets(c)

OtaNext ==
    \/ \E t \in Tasks : TaskStep(t)
    \/ \E c \in OtaCallers : StartAccepted(c) \/ AbortEnters(c) \/ OtaCallerStep(c)

\* FreeRTOS runs every ready task, and the download has a timeout: a transfer that
\* neither ends nor fails for ever is excluded.
OtaFairness ==
    /\ \A t \in Tasks : /\ WF_otaVars(TaskStep(t))
                        /\ SF_otaVars(tpc[t] = "perform" /\ TaskDownloads(t) /\ tpc'[t] # "loop")
    /\ \A c \in OtaCallers : WF_otaVars(OtaCallerStep(c))

OtaSpec == OtaInit /\ [][OtaNext]_otaVars /\ OtaFairness
-----------------------------------------------------------------------------
(* Properties *)

\* Whenever os_ota_is_in_progress reports an update, and so os_ota_start refuses another,
\* an OTA task exists or an abort has yet to reset the state: somebody is left whose next
\* steps end it.  Whether they can take them is another matter: once a forced delete took
\* s_mutex with it, that abort waits for ever at its reset and every start is refused or
\* waits for ever too, and the property still holds.
ProgressHasWorker ==
    InProgress => \/ \E t \in Tasks : Lives(t)
                  \/ \E c \in OtaCallers : cpc[c] \in {"clear", "reset"}

\* As long as updates have not overlapped, s_ota_task is the task that exists, and
\* NULL when there is none, but for the moment in which a forced abort clears it:
\* os_ota_abort reaches the update, and nothing but it.
HandleIsTask ==
    /\ OtaTypeOK
    /\ ~overlap => /\ \A t \in Tasks : Lives(t) => otaTask = t
                   /\ otaTask # 0 => Lives(otaTask) \/ \E c \in OtaCallers : cpc[c] = "clear"

\* As long as updates have not overlapped, an update that is being written, checked
\* or booted is reported by os_ota_is_in_progress from the first byte to the
\* restart.
RunningIsReported ==
    ~overlap =>
        \A t \in Tasks : tpc[t] \in {"begin", "loop", "perform", "finish", "restart"} =>
            InProgress

\* Every update ends: the state returns to IDLE or ERROR, or the chip restarts,
\* unless a forced delete took s_mutex with it.
UpdateEnds == InProgress ~> (~InProgress \/ mutexLost)

\* os_ota_abort returns, unless it deletes its caller or a forced delete took
\* s_mutex with it.
AbortReturns ==
    \A c \in OtaCallers : cpc[c] = "request" ~> (cpc[c] \in {"idle", "deleted"} \/ mutexLost)

=============================================================================

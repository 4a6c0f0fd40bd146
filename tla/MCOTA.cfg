SPECIFICATION OtaSpec
CONSTANTS
    OtaCallers = {c1, c2}
    MaxTasks = 2
INVARIANTS ProgressHasWorker HandleIsTask RunningIsReported
PROPERTIES UpdateEnds AbortReturns
CHECK_DEADLOCK FALSE

SPECIFICATION Spec
CONSTANTS
    MaxProcesses = 2
    Handles = {h1, h2}
    Null = Null
    Boot = Boot
    PidMod = 4
    MaxIssued = 4
INVARIANT MutexNeverAbandoned
CHECK_DEADLOCK FALSE

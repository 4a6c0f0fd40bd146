SPECIFICATION Spec
CONSTANTS
    MaxProcesses = 2
    Handles = {h1, h2, h3}
    Null = Null
    Boot = Boot
    PidMod = 4
    MaxIssued = 4
SYMMETRY HandleSymmetry
INVARIANTS LiveTasksListed PidsFresh KillIsFinal SelfPidUntilReturn
CHECK_DEADLOCK FALSE

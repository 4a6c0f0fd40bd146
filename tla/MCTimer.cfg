SPECIFICATION TimerSpec
CONSTANTS
    MaxTimers = 2
    QueueLength = 1
    Names = {a, b}
    Reloading = {a}
    NoName = NoName
    TimerCallers = {c1, c2}
    Nobody = Nobody
    MaxIds = 2
INVARIANTS TimersOwned CommandsReachTimer ActiveIsRunning
 

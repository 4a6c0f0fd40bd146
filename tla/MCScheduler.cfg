SPECIFICATION Spec
CONSTANTS
    MaxJobs = 2
    Names = {a, b}
    NoName = NoName
    MaxIds = 3
    Cap = 2
INVARIANTS TimersOwned JobStateSound OnlyRepeatsOverflow
PROPERTIES CancelledNeverStarts  ImplementsBoard

SPECIFICATION Spec
CONSTANTS
    Queues = {1, 2}
    Events = {3}
    Regions = {4}
    Names = {a, long}
    Long = {long}
    Cut = Cut
    NoName = NoName
    Callers = {c1, c2}
    Tester = c1
    Nobody = Nobody
    MaxObjects = 3
INVARIANTS ObjectsOwned HandlesReach

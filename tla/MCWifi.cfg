SPECIFICATION Spec

CONSTANTS
    Callers = {c1, c2}
    Ssids = {A, B}
    NoSsid = none
    MaxRetry = 2
    MaxQueue = 2

INVARIANTS
    ConnectedIsReal
    ConnectReportsOwn

PROPERTY
    LossResolves

SPECIFICATION Spec
CONSTANTS
    Callers = {c1, c2}
    Topics = {t1, t2}
    NoTopic = NoTopic
    MaxSubs = 1
    MaxClients = 2
INVARIANTS ConnectedIsReal SubscriptionsKept
PROPERTIES ConnectResolves

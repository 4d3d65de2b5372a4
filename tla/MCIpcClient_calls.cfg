CONSTANTS
    c1 = c1
    c2 = c2
    a1 = a1
    None = None
    Failed = Failed
    Calls = {c1, c2}
    Aborts = {a1}
    SockCap = 3
    MaxBack = 2
SPECIFICATION FairSpec
INVARIANTS TypeOK PendingExact
PROPERTIES PromiseSetOnce ImplementsRemoteCalls EndsIfRead

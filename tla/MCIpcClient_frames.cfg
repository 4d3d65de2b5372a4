CONSTANTS
    c1 = c1
    c2 = c2
    a1 = a1
    None = None
    Failed = Failed
    Calls = {c1, c2}
    Aborts = {}
    SockCap = 4
    MaxBack = 1
SPECIFICATION Spec
INVARIANT FramesWhole

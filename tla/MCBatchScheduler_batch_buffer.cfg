CONSTANTS
    r1 = r1
    r2 = r2
    r3 = r3
    a = a
    b = b
    s1 = s1
    None = None
    Eog = Eog
    Requests = {r1, r2, r3}
    Tokens = {a, b}
    Sessions = {s1}
    Prompt <- WidePrompt
    Session <- PlainSession
    MaxNew <- TwoNew
    MaxSeqs = 2
    MaxQueue = 2
    NCtx = 5
    NBatch = 3
    MinReuse = 2
SPECIFICATION Spec
INVARIANT BatchFitsBuffer

CONSTANTS
    r1 = r1
    r2 = r2
    host = host
    car = car
    fetch = fetch
    find = find
    c1 = c1
    v1 = v1
    star = star
    none = none
    Clients = {c1}
    Burst = 1
    Cost = 1
    Enabled = TRUE
    MaxClock = 1
    Plugins = {host, car}
    Tools = {fetch, find}
    Vias = {v1}
    Short = none
    Requests = {r1, r2}
    Mixes <- MCMixes
    Native <- MCNative
    Announced <- MCAnnounced
    Any = star
    AllowLists <- MCAllowLists
    Written = {5}
    Called <- MCCalled
    NPre = 2
    NGen = 1
    MaxRounds = 1
    MaxHierarchy = 1
    ContextSize = 6
    Reserve = 1
    Budgets = {0, 5}
    SchemaSize = 1
    BigSize = 3
    MaxHost = 1
    MaxRemote = 1
SPECIFICATION Spec
INVARIANTS TypeOK WindowBound SchemasExact PromptFresh ResultsReachModel AnswersAreBacked OutcomesExact SubcallsCounted
PROPERTIES DispatchInScope Answered
CHECK_DEADLOCK FALSE
